---- MODULE Spec2Model ----
(***************************************************************************)
(* A model of the deployment orchestration core of publish-store:          *)
(*   - helpers.ts      withTimeout, withRetry                               *)
(*   - http-client.ts  HttpClientService.executeWithRetry                   *)
(*   - action.ts       PublishStoreAction.run / performDeployment /         *)
(*                     validateArtifact                                     *)
(*   - base-deployer.ts, android-deployer.ts, ios-deployer.ts               *)
(*                                                                         *)
(* Every await of the source is a suspension point and hence an action     *)
(* boundary; synchronous code between two awaits is one action.  Remote    *)
(* services, the file system and the upload tool answer                    *)
(* nondeterministically.  Time is in milliseconds; the clock advances in   *)
(* steps of one minute (MsPerTick).                                        *)
(***************************************************************************)
EXTENDS Integers, Sequences, FiniteSets, TLC

VARIABLES
    inputs,   \* ActionInputs plus the facts of the environment they refer to
    orch,     \* PublishStoreAction.run / performDeployment: position and outcome
    dep,      \* the deployer instance created for this attempt
    wt,       \* the promise built by withTimeout, its timer and abort listener
    op,       \* the promise handed to withTimeout (deployer.deploy(inputs))
    sig,      \* the AbortSignal handed to withTimeout
    now,      \* wall clock, ms
    calls,    \* remote / out-of-process calls issued so far, in order
    keyFile,  \* iOS temporary credential file
    rt,       \* one run of withRetry / executeWithRetry
    iv,       \* one run of InputValidator.validateArtifact
    cc,       \* two iOS attempts sharing the temporary directory
    pl,       \* one deploy() of the App Store Connect REST deployer
    hd,       \* one call of HttpClientService.sanitizeHeaders
    cl        \* one call of BaseDeployer.handleDeploymentError on a message

vars == <<inputs, orch, dep, wt, op, sig, now, calls, keyFile, rt, iv, cc, pl, hd, cl>>

----------------------------------------------------------------------------
(* Bounds of the model *)

MaxTime == 3
MaxTimeoutMinutes == 2
MaxAttemptsBound == 3
MaxHeaders == 2
MaxFragments == 2

MsPerTick == 60 * 1000
MaxNow == MaxTime * MsPerTick

Min(a, b) == IF a <= b THEN a ELSE b

----------------------------------------------------------------------------
(* Errors (types/index.ts).  kind is the constructor name; msg records     *)
(* where the message text was produced (origin) and which substrings       *)
(* tested by isRetryableError it contains (markers).                       *)

Msg(origin, markers) == [origin |-> origin, markers |-> markers]

NoMsg == Msg("none", {})

NoError == [kind |-> "none", code |-> "none", msg |-> NoMsg, retryable |-> FALSE]

DeploymentError(msg, code, retryable) ==
    [kind |-> "DeploymentError", code |-> code, msg |-> msg, retryable |-> retryable]

AuthenticationError(msg) ==
    [kind |-> "AuthenticationError", code |-> "AUTHENTICATION_ERROR", msg |-> msg,
     retryable |-> FALSE]

NetworkError(msg) ==
    [kind |-> "NetworkError", code |-> "NETWORK_ERROR", msg |-> msg, retryable |-> TRUE]

TimeoutError(msg) ==
    [kind |-> "TimeoutError", code |-> "TIMEOUT_ERROR", msg |-> msg, retryable |-> TRUE]

ValidationError(msg) ==
    [kind |-> "ValidationError", code |-> "VALIDATION_ERROR", msg |-> msg,
     retryable |-> FALSE]

\* a plain `new Error(message)`: no code, no retryable field
PlainError(msg) ==
    [kind |-> "Error", code |-> "none", msg |-> msg, retryable |-> FALSE]

\* base-deployer.ts isRetryableError: the substrings it looks for in a message
RetryMarkers ==
    {"network", "timeout", "ECONNRESET", "ETIMEDOUT", "rate limit", "429",
     "too many requests", "500", "502", "503", "504"}

\* a heuristic that does not look for the server error codes
isRetryableErrorWithoutServerErrors(error) ==
    error.msg.markers \cap (RetryMarkers \ {"500", "502", "503", "504"}) # {}

isRetryableError(error) == error.msg.markers \cap RetryMarkers # {}

\* base-deployer.ts handleDeploymentError: code is error.constructor.name
handleDeploymentError(error) ==
    DeploymentError(error.msg, error.kind, isRetryableError(error))

----------------------------------------------------------------------------
(* Results *)

NoResult ==
    [kind |-> "none", status |-> "none", platform |-> "none", versionCode |-> 0,
     editId |-> "none", dryRun |-> FALSE, url |-> "none", packageName |-> "none",
     track |-> "none"]

Result(platform, versionCode, editId, dryRun, url) ==
    [kind |-> "result", status |-> "success", platform |-> platform,
     versionCode |-> versionCode, editId |-> editId, dryRun |-> dryRun, url |-> url,
     packageName |-> "none", track |-> "none"]

\* base-deployer.ts getDryRunUrl and its overrides
getDryRunUrl(platform) ==
    IF platform = "android" THEN "play.google.com/console/developers (dry run)"
    ELSE "appstoreconnect.apple.com (dry run)"

----------------------------------------------------------------------------
(* Inputs and the artifact they name *)

Platforms == {"android", "ios"}

aab == <<".", "a", "a", "b">>
AAB == <<".", "A", "A", "B">>
ipa == <<".", "i", "p", "a">>
Ipa == <<".", "I", "p", "a">>
apk == <<".", "a", "p", "k">>

Extensions == {aab, AAB, ipa, Ipa, apk}

AndroidMaxSize == 200 * 1024 * 1024
IOSMaxSize == 250 * 1024 * 1024

\* exists, readable, extension, size: the file at artifactPath; credsOk: the
\* credential input decodes and has the required structure; remoteOk: the store's
\* API is reachable and accepts the credential
InputSpace ==
    [platform : Platforms, dryRun : BOOLEAN, timeoutMinutes : 1..MaxTimeoutMinutes,
     exists : BOOLEAN, readable : BOOLEAN, extension : Extensions,
     size : {AndroidMaxSize, AndroidMaxSize + 1, IOSMaxSize, IOSMaxSize + 1},
     credsOk : BOOLEAN, remoteOk : BOOLEAN,
     packageName : {"com.example.app"}, track : {"beta"}]

\* String.prototype.toLowerCase on the characters that occur
LowerChar(c) ==
    CASE c = "A" -> "a"
      [] c = "B" -> "b"
      [] c = "I" -> "i"
      [] c = "P" -> "p"
      [] c = "K" -> "k"
      [] OTHER -> c

toLowerCase(s) == [i \in DOMAIN s |-> LowerChar(s[i])]

\* validateArtifact rejecting a size equal to the ceiling
validateArtifactInclusive(in) ==
    IF ~in.exists
    THEN DeploymentError(Msg("validateArtifact", {}), "ARTIFACT_NOT_FOUND", FALSE)
    ELSE IF ~in.readable
    THEN PlainError(Msg("getFileInfo", {}))
    ELSE LET expectedExtension == IF in.platform = "android" THEN aab ELSE ipa
             maxSize == IF in.platform = "android"
                        THEN 200 * 1024 * 1024 ELSE 250 * 1024 * 1024
         IN  IF toLowerCase(in.extension) # expectedExtension
             THEN DeploymentError(Msg("validateArtifact", {}), "INVALID_ARTIFACT_TYPE", FALSE)
             ELSE IF in.size >= maxSize
             THEN DeploymentError(Msg("validateArtifact", {}), "ARTIFACT_TOO_LARGE", FALSE)
             ELSE NoError

\* action.ts validateArtifact: NoError when it returns, else what it throws
validateArtifact(in) ==
    IF ~in.exists
    THEN DeploymentError(Msg("validateArtifact", {}), "ARTIFACT_NOT_FOUND", FALSE)
    ELSE IF ~in.readable
    THEN PlainError(Msg("getFileInfo", {}))
    ELSE LET expectedExtension == IF in.platform = "android" THEN aab ELSE ipa
             maxSize == IF in.platform = "android"
                        THEN 200 * 1024 * 1024 ELSE 250 * 1024 * 1024
         IN  IF toLowerCase(in.extension) # expectedExtension
             THEN DeploymentError(Msg("validateArtifact", {}), "INVALID_ARTIFACT_TYPE", FALSE)
             ELSE IF in.size > maxSize
             THEN DeploymentError(Msg("validateArtifact", {}), "ARTIFACT_TOO_LARGE", FALSE)
             ELSE NoError

getExpectedArtifactExtension(platform) == IF platform = "android" THEN aab ELSE ipa

getMaxArtifactSize(platform) == IF platform = "android" THEN AndroidMaxSize ELSE IOSMaxSize

\* base-deployer.ts validateArtifact: a boolean, every failure is `false`
baseValidateArtifact(in, platform) ==
    /\ in.exists
    /\ in.readable
    /\ toLowerCase(in.extension) = getExpectedArtifactExtension(platform)
    /\ ~(in.size > getMaxArtifactSize(platform))

----------------------------------------------------------------------------
(* withTimeout (helpers.ts) *)

WtIdle ==
    [state |-> "idle", value |-> NoError, timeoutMs |-> 0, startedAt |-> 0,
     timer |-> FALSE, listener |-> FALSE, events |-> <<>>]

OpIdle == [state |-> "idle", value |-> NoError]
OpPending == [state |-> "pending", value |-> NoError]

\* new Promise(executor): timer armed, abort listener added when a signal is given
withTimeout(timeoutMs, signal, t) ==
    [state |-> "pending", value |-> NoError, timeoutMs |-> timeoutMs, startedAt |-> t,
     timer |-> TRUE, listener |-> signal.present, events |-> <<>>]

\* resolve / reject of a promise: only the first call has an effect
Settle(w, st, v) ==
    IF w.state = "pending" THEN [w EXCEPT !.state = st, !.value = v] ELSE w

clearTimeout(w) == [w EXCEPT !.timer = FALSE]

Event(w, name, v) == [w EXCEPT !.events = Append(@, [ev |-> name, value |-> v])]

\* the .then / .catch callbacks on the wrapped promise
OnOpSettled(w, st, v) ==
    IF w.state = "idle" THEN w
    ELSE Settle(clearTimeout(Event(w, IF st = "fulfilled" THEN "fulfil" ELSE "reject", v)),
                st, v)

\* the setTimeout callback
OnTimer(w) ==
    LET e == TimeoutError(Msg("withTimeout", {}))
    IN  Settle([Event(w, "deadline", e) EXCEPT !.timer = FALSE], "rejected", e)

\* an 'abort' listener that leaves the timer armed
OnAbortKeepingTimer(w) ==
    LET e == DeploymentError(Msg("withTimeout.abort", {}), "ABORTED", FALSE)
    IN  Settle(Event(w, "abort", e), "rejected", e)

\* the 'abort' listener
OnAbort(w) ==
    LET e == DeploymentError(Msg("withTimeout.abort", {}), "ABORTED", FALSE)
    IN  Settle(clearTimeout(Event(w, "abort", e)), "rejected", e)

\* a timer that does not wait for its delay
TimerDueAtOnce(w, t) == w.timer

\* setTimeout(callback, timeoutMs): the callback runs once, not before the delay
TimerDue(w, t) == w.timer /\ t >= w.startedAt + w.timeoutMs

----------------------------------------------------------------------------
(* The orchestrator (action.ts) *)

\* Logger.group(name): groupLevel++
group(level) == level + 1

\* Logger.groupEnd() called by a component that has `own` groups open, the logger
\* being at `level`: nothing happens at level 0
groupEnd(own, level) == IF level > 0 THEN own - 1 ELSE own

\* groups: the log groups run, performDeployment and validateArtifact have open
OrchStart ==
    [pc |-> "performDeployment", vaError |-> NoError, deployerCreated |-> FALSE,
     error |-> NoError, result |-> NoResult, outputs |-> NoResult,
     setFailed |-> 0, failedMsg |-> NoMsg, exited |-> FALSE, groups |-> 0]

\* performDeployment's catch block: code is error.constructor.name, retryable is
\* `error instanceof TimeoutError`
performDeploymentCatch(error) ==
    DeploymentError(error.msg, error.kind, error.kind = "TimeoutError")

\* what googlePlayServiceAccountJson holds: base64 text or not, JSON text or
\* not, and the fields of the parsed object (type "" is an absent type)
ServiceAccount ==
    [base64 |-> TRUE, json |-> TRUE, type |-> "service_account",
     project_id |-> TRUE, private_key |-> TRUE, client_email |-> TRUE]

ServiceAccounts ==
    {ServiceAccount,
     [ServiceAccount EXCEPT !.base64 = FALSE],
     [ServiceAccount EXCEPT !.json = FALSE],
     [ServiceAccount EXCEPT !.type = ""],
     [ServiceAccount EXCEPT !.type = "authorized_user"],
     [ServiceAccount EXCEPT !.project_id = FALSE],
     [ServiceAccount EXCEPT !.private_key = FALSE],
     [ServiceAccount EXCEPT !.client_email = FALSE]}

\* no payload decoded yet
NoServiceAccount == [ServiceAccount EXCEPT !.type = "undecoded"]

\* validateServiceAccount without the check of the type's value
validateServiceAccountAnyType(sa) ==
    IF sa.type = "" THEN "Missing required field in service account: type"
    ELSE IF ~sa.project_id THEN "Missing required field in service account: project_id"
    ELSE IF ~sa.private_key THEN "Missing required field in service account: private_key"
    ELSE IF ~sa.client_email THEN "Missing required field in service account: client_email"
    ELSE "none"

\* validateServiceAccount(serviceAccount): the message it throws, "none" if it returns
validateServiceAccount(sa) ==
    IF sa.type = "" THEN "Missing required field in service account: type"
    ELSE IF ~sa.project_id THEN "Missing required field in service account: project_id"
    ELSE IF ~sa.private_key THEN "Missing required field in service account: private_key"
    ELSE IF ~sa.client_email THEN "Missing required field in service account: client_email"
    ELSE IF sa.type # "service_account"
         THEN "Service account must be of type service_account"
    ELSE "none"

\* decodeBase64, JSON.parse and validateServiceAccount in initializeGooglePlayAPI's
\* try block: the message of the error caught, "none" if none is thrown
decodeServiceAccount(sa) ==
    IF ~sa.base64 THEN "Invalid base64 string"
    ELSE IF ~sa.json THEN "Unexpected token"
    ELSE validateServiceAccount(sa)

DepIdle ==
    [pc |-> "idle", platform |-> "none", editId |-> "none", versionCode |-> 0,
     err |-> NoError, uploaded |-> FALSE, cleanupFailed |-> FALSE,
     diag |-> [patterns |-> {}, markers |-> {}], thrown |-> NoError,
     openedAt |-> -1, packageName |-> "none", serviceAccount |-> NoServiceAccount,
     groups |-> 0]

\* Logger.groupLevel: the one logger counts the groups of the orchestrator and
\* of the deployer
groupLevel == orch.groups + dep.groups

\* deploy(inputs) without the dry-run branch
deployStartIgnoringDryRun(in) ==
    [DepIdle EXCEPT !.platform = in.platform,
                    !.pc = IF in.platform = "android" THEN "init" ELSE "iosCheck"]

\* deploy(inputs) up to its first await
deployStart(in) ==
    [DepIdle EXCEPT !.platform = in.platform,
                    !.pc = IF in.dryRun THEN "dryValidate"
                           ELSE IF in.platform = "android" THEN "init" ELSE "iosCheck"]

SigNone == [present |-> FALSE, aborted |-> FALSE, owned |-> FALSE]

\* `new AbortController().signal`: the controller is dropped, nobody can abort it
SigFresh == [present |-> TRUE, aborted |-> FALSE, owned |-> FALSE]

Alive == ~orch.exited

\* the promise returned by deploy() settles; withTimeout's callbacks run with it
DeployRejects(e) ==
    LET de == handleDeploymentError(e)
    IN  /\ op' = [state |-> "rejected", value |-> de]
        /\ wt' = OnOpSettled(wt, "rejected", de)

DeployFulfils(r) ==
    /\ op' = [state |-> "fulfilled", value |-> r]
    /\ wt' = OnOpSettled(wt, "fulfilled", r)

\* performDeployment up to the await of validateArtifact, and its outcome
ValidateArtifactStep ==
    /\ orch.pc = "performDeployment"
    /\ LET e == validateArtifact(inputs)
       IN  orch' = IF e = NoError
                   THEN [orch EXCEPT !.pc = "createDeployer",
                                     !.groups = groupEnd(group(group(@)),
                                                         group(group(groupLevel)))]
                   ELSE [orch EXCEPT !.pc = "pdThrew", !.vaError = e,
                                     !.error = performDeploymentCatch(e),
                                     !.groups =
                                         groupEnd(groupEnd(group(group(@)),
                                                           group(group(groupLevel))),
                                                  group(groupLevel))]
    /\ UNCHANGED <<inputs, dep, wt, op, sig, now, calls, keyFile, rt, iv, cc, pl, hd, cl>>

\* createDeployer, deployer.deploy(inputs) and withTimeout(...) are one synchronous run
CreateDeployerAndDeploy ==
    /\ orch.pc = "createDeployer"
    /\ orch' = [orch EXCEPT !.pc = "awaitDeploy", !.deployerCreated = TRUE]
    /\ dep' = deployStart(inputs)
    /\ op' = OpPending
    /\ sig' = SigFresh
    /\ wt' = withTimeout(inputs.timeoutMinutes * 60 * 1000, SigFresh, now)
    /\ UNCHANGED <<inputs, now, calls, keyFile, rt, iv, cc, pl, hd, cl>>

\* performDeployment awaiting deployer.deploy(inputs) itself
AwaitDeployPromise ==
    /\ orch.pc = "awaitDeploy"
    /\ op.state \in {"fulfilled", "rejected"}
    /\ orch' = IF op.state = "fulfilled"
               THEN [orch EXCEPT !.pc = "pdReturned", !.result = op.value,
                                 !.groups = groupEnd(@, groupLevel)]
               ELSE [orch EXCEPT !.pc = "pdThrew",
                                 !.error = performDeploymentCatch(op.value),
                                 !.groups = groupEnd(@, groupLevel)]
    /\ UNCHANGED <<inputs, dep, wt, op, sig, now, calls, keyFile, rt, iv, cc, pl, hd, cl>>

\* `await withTimeout(...)` resumes: return {...result, duration} or catch and rethrow
AwaitWithTimeout ==
    /\ orch.pc = "awaitDeploy"
    /\ wt.state \in {"fulfilled", "rejected"}
    /\ orch' = IF wt.state = "fulfilled"
               THEN [orch EXCEPT !.pc = "pdReturned", !.result = wt.value,
                                 !.groups = groupEnd(@, groupLevel)]
               ELSE [orch EXCEPT !.pc = "pdThrew",
                                 !.error = performDeploymentCatch(wt.value),
                                 !.groups = groupEnd(@, groupLevel)]
    /\ UNCHANGED <<inputs, dep, wt, op, sig, now, calls, keyFile, rt, iv, cc, pl, hd, cl>>

\* run() whose try block throws after setActionOutputs(deploymentResult)
RunSuccessThenThrow ==
    /\ orch.pc = "pdReturned"
    /\ orch' = [orch EXCEPT !.pc = "pdThrew", !.outputs = orch.result,
                            !.error = PlainError(Msg("run", {}))]
    /\ UNCHANGED <<inputs, dep, wt, op, sig, now, calls, keyFile, rt, iv, cc, pl, hd, cl>>

\* run(): setActionOutputs(deploymentResult) after performDeployment returned
RunSuccess ==
    /\ orch.pc = "pdReturned"
    /\ orch' = [orch EXCEPT !.pc = "done", !.outputs = orch.result]
    /\ UNCHANGED <<inputs, dep, wt, op, sig, now, calls, keyFile, rt, iv, cc, pl, hd, cl>>

\* run()'s catch block: deploymentResult is still undefined, so no outputs are set;
\* core.setFailed(message); process.exit(1)
RunFailure ==
    /\ orch.pc = "pdThrew"
    /\ orch' = [orch EXCEPT !.pc = "exited", !.setFailed = @ + 1,
                            !.failedMsg = orch.error.msg, !.exited = TRUE]
    /\ UNCHANGED <<inputs, dep, wt, op, sig, now, calls, keyFile, rt, iv, cc, pl, hd, cl>>

----------------------------------------------------------------------------
(* The clock, the timer and the abort signal *)

MaxTimeoutMs == MaxTimeoutMinutes * 60 * 1000

\* before withTimeout is called the clock leaves room for the longest timeout
Tick ==
    /\ now + (IF wt.state = "idle" THEN MaxTimeoutMs ELSE 0) < MaxNow
    /\ now' = now + MsPerTick
    /\ UNCHANGED <<inputs, orch, dep, wt, op, sig, calls, keyFile, rt, iv, cc, pl, hd, cl>>

\* a deadline that also stops the deployer
TimerFireCancelling ==
    /\ Alive
    /\ TimerDue(wt, now)
    /\ wt' = OnTimer(wt)
    /\ dep' = [dep EXCEPT !.pc = "threw"]
    /\ UNCHANGED <<inputs, orch, op, sig, now, calls, keyFile, rt, iv, cc, pl, hd, cl>>

TimerFire ==
    /\ Alive
    /\ TimerDue(wt, now)
    /\ wt' = OnTimer(wt)
    /\ UNCHANGED <<inputs, orch, dep, op, sig, now, calls, keyFile, rt, iv, cc, pl, hd, cl>>

\* the holder of the AbortController calls abort(); listeners are notified once
AbortFire ==
    /\ sig.present /\ sig.owned /\ ~sig.aborted
    /\ sig' = [sig EXCEPT !.aborted = TRUE]
    /\ wt' = IF wt.listener THEN OnAbort(wt) ELSE wt
    /\ UNCHANGED <<inputs, orch, dep, op, now, calls, keyFile, rt, iv, cc, pl, hd, cl>>

----------------------------------------------------------------------------
(* Remote services *)

EditIds == {"e1", "e2"}
VersionCodes == {41, 42}

\* substrings of the message of an error thrown by a remote client
RemoteMarkerSets == {{}, {"503"}}

\* a call: its request (editId, versionCode), whether the code took its answer as a
\* success (ok), and the edit id the answer carried (retId)
Call(api, editId, versionCode, ok, retId) ==
    [api |-> api, editId |-> editId, versionCode |-> versionCode, ok |-> ok, retId |-> retId,
     track |-> "none"]

\* answers of edits.insert: an id, no id, or a thrown error
InsertResponses ==
    {[ok |-> TRUE, id |-> e, markers |-> {}] : e \in EditIds}
    \cup {[ok |-> TRUE, id |-> "none", markers |-> {}]}
    \cup {[ok |-> FALSE, id |-> "none", markers |-> m] : m \in RemoteMarkerSets}

\* answers of edits.bundles.upload: a version code, none, or a thrown error
UploadResponses ==
    {[ok |-> TRUE, versionCode |-> v, markers |-> {}] : v \in VersionCodes}
    \cup {[ok |-> TRUE, versionCode |-> 0, markers |-> {}]}
    \cup {[ok |-> FALSE, versionCode |-> 0, markers |-> m] : m \in RemoteMarkerSets}

\* answers of a call without a checked payload: done, or a thrown error
PlainResponses ==
    {[ok |-> TRUE, markers |-> {}]}
    \cup {[ok |-> FALSE, markers |-> m] : m \in RemoteMarkerSets}

\* substrings of the message of an error thrown while the service account is
\* decoded, parsed (JSON.parse quotes the text it rejects) and checked
CredentialMarkerSets == {{}, {"network"}}

----------------------------------------------------------------------------
(* Dry run (base-deployer.ts performDryRun) *)

DryRunValidateArtifact ==
    /\ Alive /\ dep.pc = "dryValidate"
    /\ IF baseValidateArtifact(inputs, dep.platform)
       THEN /\ dep' = [dep EXCEPT !.pc = "dryPlatform"]
            /\ UNCHANGED <<op, wt>>
       ELSE /\ dep' = [dep EXCEPT !.pc = "threw"]
            /\ DeployRejects(DeploymentError(Msg("performDryRun", {}),
                                             "DRY_RUN_VALIDATION_FAILED", FALSE))
    /\ UNCHANGED <<inputs, orch, sig, now, calls, keyFile, rt, iv, cc, pl, hd, cl>>

\* performPlatformSpecificDryRunValidations, then the dry-run result
DryRunPlatformValidations ==
    /\ Alive /\ dep.pc = "dryPlatform"
    /\ \E sa \in ServiceAccounts :
          /\ (decodeServiceAccount(sa) = "none") = inputs.credsOk
          /\ IF dep.platform = "android" /\ decodeServiceAccount(sa) # "none"
             THEN /\ dep' = [dep EXCEPT !.pc = "threw", !.serviceAccount = sa]
                  /\ \E m \in CredentialMarkerSets :
                        DeployRejects(AuthenticationError(Msg("initializeGooglePlayAPI", m)))
             ELSE /\ dep' = [dep EXCEPT !.pc = "done",
                                        !.serviceAccount =
                                            IF dep.platform = "android" THEN sa ELSE @]
                  /\ DeployFulfils(Result(dep.platform, 0, "none", TRUE,
                                          getDryRunUrl(dep.platform)))
    /\ UNCHANGED <<inputs, orch, sig, now, calls, keyFile, rt, iv, cc, pl, hd, cl>>

----------------------------------------------------------------------------
(* Android (android-deployer.ts) *)

initializeGooglePlayAPI ==
    /\ Alive /\ dep.pc = "init"
    /\ \E sa \in ServiceAccounts :
          /\ (decodeServiceAccount(sa) = "none") = inputs.credsOk
          /\ IF decodeServiceAccount(sa) = "none"
             THEN /\ dep' = [dep EXCEPT !.pc = "validate", !.serviceAccount = sa,
                                        !.packageName = inputs.packageName]
                  /\ UNCHANGED <<op, wt>>
             ELSE /\ dep' = [dep EXCEPT !.pc = "threw", !.serviceAccount = sa]
                  /\ \E m \in CredentialMarkerSets :
                        DeployRejects(AuthenticationError(Msg("initializeGooglePlayAPI", m)))
    /\ UNCHANGED <<inputs, orch, sig, now, calls, keyFile, rt, iv, cc, pl, hd, cl>>

AndroidValidateArtifact ==
    /\ Alive /\ dep.pc = "validate"
    /\ IF baseValidateArtifact(inputs, dep.platform)
       THEN /\ dep' = [dep EXCEPT !.pc = "insert"]
            /\ UNCHANGED <<op, wt>>
       ELSE /\ dep' = [dep EXCEPT !.pc = "threw"]
            /\ DeployRejects(DeploymentError(Msg("deploy", {}),
                                             "ARTIFACT_VALIDATION_FAILED", FALSE))
    /\ UNCHANGED <<inputs, orch, sig, now, calls, keyFile, rt, iv, cc, pl, hd, cl>>

\* a failure here is outside the inner try: no cleanup
createEditSession ==
    /\ Alive /\ dep.pc = "insert"
    /\ \E r \in InsertResponses :
          /\ r.ok => inputs.remoteOk
          /\ calls' = Append(calls, Call("edits.insert", "none", 0,
                                      r.ok /\ r.id # "none", r.id))
          /\ IF r.ok /\ r.id # "none"
             THEN /\ dep' = [dep EXCEPT !.pc = "upload", !.editId = r.id,
                                         !.openedAt = now, !.groups = group(@)]
                  /\ UNCHANGED <<op, wt>>
             ELSE /\ dep' = [dep EXCEPT !.pc = "threw"]
                  /\ DeployRejects(NetworkError(Msg("createEditSession", r.markers)))
    /\ UNCHANGED <<inputs, orch, sig, now, keyFile, rt, iv, cc, pl, hd, cl>>

\* uploadAAB without the check of response.data.versionCode
uploadAABWithoutVersionCheck ==
    /\ Alive /\ dep.pc = "upload"
    /\ \E r \in UploadResponses :
          /\ calls' = Append(calls, Call("edits.bundles.upload", dep.editId, r.versionCode,
                                      r.ok, "none"))
          /\ dep' = IF r.ok
                    THEN [dep EXCEPT !.pc = "update", !.versionCode = r.versionCode]
                    ELSE [dep EXCEPT !.pc = "cleanup",
                                     !.err = NetworkError(Msg("uploadAAB", r.markers))]
    /\ UNCHANGED <<inputs, orch, wt, op, sig, now, keyFile, rt, iv, cc, pl, hd, cl>>

\* the call record carries the version code the upload returned
uploadAAB ==
    /\ Alive /\ dep.pc = "upload"
    /\ \E r \in UploadResponses :
          /\ calls' = Append(calls, Call("edits.bundles.upload", dep.editId, r.versionCode,
                                      r.ok /\ r.versionCode # 0, "none"))
          /\ dep' = IF r.ok /\ r.versionCode # 0
                    THEN [dep EXCEPT !.pc = "update", !.versionCode = r.versionCode]
                    ELSE [dep EXCEPT !.pc = "cleanup",
                                     !.err = NetworkError(Msg("uploadAAB", r.markers))]
    /\ UNCHANGED <<inputs, orch, wt, op, sig, now, keyFile, rt, iv, cc, pl, hd, cl>>

\* updateTrack with its failure swallowed
updateTrackFailureIgnored ==
    /\ Alive /\ dep.pc = "update"
    /\ \E r \in PlainResponses :
          /\ calls' = Append(calls, [Call("edits.tracks.update", dep.editId,
                                           dep.versionCode, r.ok, "none")
                                        EXCEPT !.track = inputs.track])
          /\ dep' = [dep EXCEPT !.pc = "commit"]
    /\ UNCHANGED <<inputs, orch, wt, op, sig, now, keyFile, rt, iv, cc, pl, hd, cl>>

updateTrack ==
    /\ Alive /\ dep.pc = "update"
    /\ \E r \in PlainResponses :
          /\ calls' = Append(calls, [Call("edits.tracks.update", dep.editId,
                                           dep.versionCode, r.ok, "none")
                                        EXCEPT !.track = inputs.track])
          /\ dep' = IF r.ok
                    THEN [dep EXCEPT !.pc = "commit"]
                    ELSE [dep EXCEPT !.pc = "cleanup",
                                     !.err = NetworkError(Msg("updateTrack", r.markers))]
    /\ UNCHANGED <<inputs, orch, wt, op, sig, now, keyFile, rt, iv, cc, pl, hd, cl>>

\* a commit after whose success the inner try block still throws
commitEditSessionThenThrow ==
    /\ Alive /\ dep.pc = "commit"
    /\ \E r \in PlainResponses :
          /\ calls' = Append(calls, Call("edits.commit", dep.editId, 0, r.ok, "none"))
          /\ dep' = [dep EXCEPT !.pc = "cleanup",
                                !.err = NetworkError(Msg("commitEditSession", r.markers))]
          /\ UNCHANGED <<op, wt>>
    /\ UNCHANGED <<inputs, orch, sig, now, keyFile, rt, iv, cc, pl, hd, cl>>

\* on success performGooglePlayDeployment returns and deploy() fulfils
commitEditSession ==
    /\ Alive /\ dep.pc = "commit"
    /\ \E r \in PlainResponses :
          /\ calls' = Append(calls, Call("edits.commit", dep.editId, 0, r.ok, "none"))
          /\ IF r.ok
             THEN /\ dep' = [dep EXCEPT !.pc = "done", !.groups = groupEnd(@, groupLevel)]
                  /\ DeployFulfils([Result("android", dep.versionCode, dep.editId, FALSE,
                                           "play.google.com/store/apps/details")
                                      EXCEPT !.packageName = dep.packageName,
                                             !.track = inputs.track])
             ELSE /\ dep' = [dep EXCEPT !.pc = "cleanup",
                                        !.err = NetworkError(Msg("commitEditSession", r.markers))]
                  /\ UNCHANGED <<op, wt>>
    /\ UNCHANGED <<inputs, orch, sig, now, keyFile, rt, iv, cc, pl, hd, cl>>

\* the inner catch without the call of edits.delete
cleanupEditSessionSkipped ==
    /\ Alive /\ dep.pc = "cleanup"
    /\ calls' = calls
    /\ dep' = [dep EXCEPT !.pc = "threw"]
    /\ DeployRejects(dep.err)
    /\ UNCHANGED <<inputs, orch, sig, now, keyFile, rt, iv, cc, pl, hd, cl>>

\* cleanupEditSession without its own try / catch: a failing delete escapes
cleanupEditSessionThrowing ==
    /\ Alive /\ dep.pc = "cleanup"
    /\ \E r \in PlainResponses :
          /\ calls' = Append(calls, Call("edits.delete", dep.editId, 0, r.ok, "none"))
          /\ dep' = [dep EXCEPT !.pc = "threw", !.cleanupFailed = ~r.ok]
          /\ DeployRejects(IF r.ok THEN dep.err
                           ELSE PlainError(Msg("cleanupEditSession", r.markers)))
    /\ UNCHANGED <<inputs, orch, sig, now, keyFile, rt, iv, cc, pl, hd, cl>>

\* the inner catch: await cleanupEditSession(editId) (never throws), then rethrow
cleanupEditSession ==
    /\ Alive /\ dep.pc = "cleanup"
    /\ \E r \in PlainResponses :
          /\ calls' = Append(calls, Call("edits.delete", dep.editId, 0, r.ok, "none"))
          /\ dep' = [dep EXCEPT !.pc = "threw", !.cleanupFailed = ~r.ok,
                                !.groups = groupEnd(@, groupLevel)]
          /\ DeployRejects(dep.err)
    /\ UNCHANGED <<inputs, orch, sig, now, keyFile, rt, iv, cc, pl, hd, cl>>

----------------------------------------------------------------------------
(* iOS (ios-deployer.ts) *)

AltoolPatterns ==
    {"Unable to authenticate", "Invalid bundle identifier",
     "The provided entity name is not unique", "Invalid provisioning profile",
     "Network error"}

\* the diagnostic output of a failed altool run, after sanitizeAltoolOutput: which
\* of the patterns it contains (at most two here) and which substrings tested by
\* isRetryableError its other text contains
AltoolDiagnostics ==
    [patterns : {ps \in SUBSET AltoolPatterns : Cardinality(ps) <= 2},
     markers : RemoteMarkerSets]

\* handleAltoolError: the error chosen by the first matching pattern; only the
\* generic fallback quotes the diagnostic in its message
handleAltoolError(diag) ==
    IF "Unable to authenticate" \in diag.patterns
    THEN AuthenticationError(Msg("handleAltoolError", {}))
    ELSE IF "Invalid bundle identifier" \in diag.patterns
    THEN DeploymentError(Msg("handleAltoolError", {}), "INVALID_BUNDLE_ID", FALSE)
    ELSE IF "The provided entity name is not unique" \in diag.patterns
    THEN DeploymentError(Msg("handleAltoolError", {}), "DUPLICATE_VERSION", FALSE)
    ELSE IF "Invalid provisioning profile" \in diag.patterns
    THEN DeploymentError(Msg("handleAltoolError", {}), "INVALID_PROVISIONING_PROFILE", FALSE)
    ELSE IF "Network error" \in diag.patterns
    THEN NetworkError(Msg("handleAltoolError", {}))
    ELSE DeploymentError(Msg("handleAltoolError", diag.markers), "ALTOOL_ERROR", FALSE)

\* uploadWithAltool's outer catch wraps whatever was thrown inside
uploadWithAltoolCatch(error) ==
    DeploymentError(Msg("uploadWithAltool", error.msg.markers), "ALTOOL_UPLOAD_FAILED", FALSE)

\* validateIOSInputs passes (the schema makes the four fields non-empty);
\* checkSystemRequirements needs altool or notarytool
checkSystemRequirements ==
    /\ Alive /\ dep.pc = "iosCheck"
    /\ \E toolsAvailable \in BOOLEAN :
          IF toolsAvailable
          THEN /\ dep' = [dep EXCEPT !.pc = "iosValidate"]
               /\ UNCHANGED <<op, wt>>
          ELSE /\ dep' = [dep EXCEPT !.pc = "threw"]
               /\ DeployRejects(DeploymentError(Msg("checkSystemRequirements", {}),
                                                "MISSING_XCODE_TOOLS", FALSE))
    /\ UNCHANGED <<inputs, orch, sig, now, calls, keyFile, rt, iv, cc, pl, hd, cl>>

IOSValidateArtifact ==
    /\ Alive /\ dep.pc = "iosValidate"
    /\ IF baseValidateArtifact(inputs, dep.platform)
       THEN /\ dep' = [dep EXCEPT !.pc = "createKey"]
            /\ UNCHANGED <<op, wt>>
       ELSE /\ dep' = [dep EXCEPT !.pc = "threw"]
            /\ DeployRejects(DeploymentError(Msg("deploy", {}),
                                             "ARTIFACT_VALIDATION_FAILED", FALSE))
    /\ UNCHANGED <<inputs, orch, sig, now, calls, keyFile, rt, iv, cc, pl, hd, cl>>

\* decodeBase64 of the private key, then fs.writeFile; a failure is outside the
\* inner try, so no cleanup follows
createTemporaryApiKeyFile ==
    /\ Alive /\ dep.pc = "createKey"
    /\ \E written \in BOOLEAN :
          IF inputs.credsOk /\ written
          THEN /\ dep' = [dep EXCEPT !.pc = "altool", !.groups = group(@)]
               /\ keyFile' = TRUE
               /\ UNCHANGED <<op, wt>>
          ELSE /\ dep' = [dep EXCEPT !.pc = "threw"]
               /\ keyFile' = keyFile
               /\ DeployRejects(DeploymentError(Msg("createTemporaryApiKeyFile", {}),
                                                "API_KEY_FILE_CREATION_FAILED", FALSE))
    /\ UNCHANGED <<inputs, orch, sig, now, calls, rt, iv, cc, pl, hd, cl>>

\* execSync blocks the event loop: time may pass inside this one step
uploadWithAltool ==
    /\ Alive /\ dep.pc = "altool"
    /\ now' \in {now} \cup (IF now < MaxNow THEN {now + MsPerTick} ELSE {})
    /\ \/ /\ inputs.remoteOk
          /\ calls' = Append(calls, Call("altool", "none", 0, TRUE, "none"))
          /\ dep' = [dep EXCEPT !.pc = "iosCleanup", !.uploaded = TRUE]
       \/ \E diag \in AltoolDiagnostics :
             /\ calls' = Append(calls, Call("altool", "none", 0, FALSE, "none"))
             /\ dep' = [dep EXCEPT !.pc = "iosCleanup", !.diag = diag,
                                   !.thrown = handleAltoolError(diag),
                                   !.err = uploadWithAltoolCatch(handleAltoolError(diag))]
    /\ UNCHANGED <<inputs, orch, wt, op, sig, keyFile, rt, iv, cc, pl, hd, cl>>

\* the finally block: cleanupTemporaryApiKeyFile never throws; then the try's
\* own completion (return or throw) takes effect
cleanupTemporaryApiKeyFile ==
    /\ Alive /\ dep.pc = "iosCleanup"
    /\ \E unlinked \in BOOLEAN :
          /\ keyFile' = IF unlinked THEN FALSE ELSE keyFile
          /\ IF dep.uploaded
             THEN /\ dep' = [dep EXCEPT !.pc = "done", !.cleanupFailed = ~unlinked,
                                        !.groups = groupEnd(@, groupLevel)]
                  /\ DeployFulfils(Result("ios", 0, "none", FALSE, "appstoreconnect.apple.com/apps"))
             ELSE /\ dep' = [dep EXCEPT !.pc = "threw", !.cleanupFailed = ~unlinked,
                                        !.groups = groupEnd(@, groupLevel)]
                  /\ DeployRejects(dep.err)
    /\ UNCHANGED <<inputs, orch, sig, now, calls, rt, iv, cc, pl, hd, cl>>

----------------------------------------------------------------------------
(* withTimeout called directly on an arbitrary promise *)

HarnessStart ==
    /\ orch.pc = "harness" /\ wt.state = "idle"
    /\ \E tm \in {0} \cup {m * 60 * 1000 : m \in 1..MaxTimeoutMinutes} :
          wt' = withTimeout(tm, sig, now)
    /\ op' = OpPending
    /\ UNCHANGED <<inputs, orch, dep, sig, now, calls, keyFile, rt, iv, cc, pl, hd, cl>>

HarnessFulfil ==
    /\ orch.pc = "harness" /\ op.state = "pending"
    /\ op' = [state |-> "fulfilled", value |-> Result("none", 0, "none", FALSE, "none")]
    /\ wt' = OnOpSettled(wt, "fulfilled", Result("none", 0, "none", FALSE, "none"))
    /\ UNCHANGED <<inputs, orch, dep, sig, now, calls, keyFile, rt, iv, cc, pl, hd, cl>>

HarnessReject ==
    /\ orch.pc = "harness" /\ op.state = "pending"
    /\ op' = [state |-> "rejected", value |-> PlainError(Msg("operation", {}))]
    /\ wt' = OnOpSettled(wt, "rejected", PlainError(Msg("operation", {})))
    /\ UNCHANGED <<inputs, orch, dep, sig, now, calls, keyFile, rt, iv, cc, pl, hd, cl>>

----------------------------------------------------------------------------
(* withRetry (helpers.ts) and HttpClientService.executeWithRetry *)

RECURSIVE Pow(_, _)
\* Math.pow on non-negative integers
Pow(b, e) == IF e = 0 THEN 1 ELSE b * Pow(b, e - 1)

\* the shouldRetry of types/index.ts DEFAULT_RETRY_CONFIG
defaultShouldRetry(error) == error.kind = "NetworkError" \/ error.kind = "TimeoutError"

\* a shouldRetry predicate, named by policy; "absent" is options.shouldRetry undefined
shouldRetry(policy, error) ==
    CASE policy = "default" -> defaultShouldRetry(error)
      [] policy = "always" -> TRUE
      [] policy = "never" -> FALSE
      [] OTHER -> TRUE

DEFAULT_RETRY_CONFIG ==
    [maxAttempts |-> 3, initialDelay |-> 1000, maxDelay |-> 10000, backoffFactor |-> 2,
     shouldRetry |-> "default"]

RetryConfigs ==
    [maxAttempts : 1..MaxAttemptsBound, initialDelay : {1000, 400},
     maxDelay : {10000, 1500}, backoffFactor : {2, 3},
     shouldRetry : {"default", "always", "never", "absent"}]

\* calculateDelay with the exponent off by one
calculateDelayNextPower(cfg, attempt) ==
    LET delay == cfg.initialDelay * Pow(cfg.backoffFactor, attempt)
    IN  Min(delay, cfg.maxDelay)

\* http-client.ts calculateDelay
calculateDelay(cfg, attempt) ==
    LET delay == cfg.initialDelay * Pow(cfg.backoffFactor, attempt - 1)
    IN  Min(delay, cfg.maxDelay)

\* a delay that is not capped by maxDelay
withRetryDelayUncapped(options, attempt) ==
    options.initialDelay * Pow(options.backoffFactor, attempt - 1)

\* the delay computed inside withRetry
withRetryDelay(options, attempt) ==
    Min(options.initialDelay * Pow(options.backoffFactor, attempt - 1), options.maxDelay)

\* the error axios rejects with: an AxiosError, whatever the status
AxiosError(status) ==
    [kind |-> "AxiosError", code |-> "none", msg |-> Msg("axios", {status}),
     retryable |-> FALSE]

\* what one invocation of the operation passed to withRetry may do; the operation
\* may be anything, an axios request included
OperationOutcomes ==
    {[ok |-> TRUE, value |-> v, error |-> NoError] : v \in {"v1", "v2", "b1"}}
    \cup {[ok |-> FALSE, value |-> "none", error |-> e] :
            e \in {NetworkError(Msg("operation", {})), TimeoutError(Msg("operation", {})),
                   PlainError(Msg("operation", {})), AxiosError("503")}}

\* what one axios request may do: a 2xx response with a body, an error status,
\* or no response at all
RequestOutcomes ==
    {[ok |-> TRUE, status |-> "200", value |-> b, error |-> NoError] : b \in {"b1", "b2"}}
    \cup {[ok |-> FALSE, status |-> st, value |-> "none", error |-> AxiosError(st)] :
            st \in {"503", "429", "no response", "400"}}

RtStart(variant, cfg) ==
    [pc |-> "call", variant |-> variant, cfg |-> cfg, attempt |-> 1, trace |-> <<>>,
     value |-> "none", error |-> NoError]

CallEvent(n, o) == [ev |-> "call", n |-> n, ok |-> o.ok, value |-> o.value, error |-> o.error]
SleepEvent(ms) == [ev |-> "sleep", n |-> 0, ok |-> TRUE, value |-> ms, error |-> NoError]

\* withRetry that does not consult shouldRetry
withRetryIgnoringShouldRetry ==
    /\ rt.pc = "call" /\ rt.variant = "withRetry"
    /\ \E o \in OperationOutcomes :
          LET t == Append(rt.trace, CallEvent(rt.attempt, o))
          IN  rt' = IF o.ok
                    THEN [rt EXCEPT !.pc = "returned", !.value = o.value, !.trace = t]
                    ELSE IF rt.attempt = rt.cfg.maxAttempts
                    THEN [rt EXCEPT !.pc = "threw", !.error = o.error, !.trace = t]
                    ELSE [rt EXCEPT !.pc = "sleep",
                                    !.trace = Append(t, SleepEvent(withRetryDelay(rt.cfg,
                                                                              rt.attempt)))]
    /\ UNCHANGED <<inputs, orch, dep, wt, op, sig, now, calls, keyFile, iv, cc, pl, hd, cl>>

\* one iteration of withRetry's loop, up to its return, throw or sleep
withRetry ==
    /\ rt.pc = "call" /\ rt.variant = "withRetry"
    /\ \E o \in OperationOutcomes :
          LET t == Append(rt.trace, CallEvent(rt.attempt, o))
          IN  rt' = IF o.ok
                    THEN [rt EXCEPT !.pc = "returned", !.value = o.value, !.trace = t]
                    ELSE IF rt.attempt = rt.cfg.maxAttempts
                            \/ (rt.cfg.shouldRetry # "absent"
                                /\ ~shouldRetry(rt.cfg.shouldRetry, o.error))
                    THEN [rt EXCEPT !.pc = "threw", !.error = o.error, !.trace = t]
                    ELSE [rt EXCEPT !.pc = "sleep",
                                    !.trace = Append(t, SleepEvent(withRetryDelay(rt.cfg,
                                                                              rt.attempt)))]
    /\ UNCHANGED <<inputs, orch, dep, wt, op, sig, now, calls, keyFile, iv, cc, pl, hd, cl>>

\* one iteration of executeWithRetry's loop; it returns response.data
executeWithRetry ==
    /\ rt.pc = "call" /\ rt.variant = "executeWithRetry"
    /\ \E o \in RequestOutcomes :
          LET t == Append(rt.trace, CallEvent(rt.attempt, o))
          IN  rt' = IF o.ok
                    THEN [rt EXCEPT !.pc = "returned", !.value = o.value, !.trace = t]
                    ELSE IF rt.attempt = rt.cfg.maxAttempts
                            \/ ~shouldRetry(rt.cfg.shouldRetry, o.error)
                    THEN [rt EXCEPT !.pc = "threw", !.error = o.error, !.trace = t]
                    ELSE [rt EXCEPT !.pc = "sleep",
                                    !.trace = Append(t, SleepEvent(calculateDelay(rt.cfg,
                                                                              rt.attempt)))]
    /\ UNCHANGED <<inputs, orch, dep, wt, op, sig, now, calls, keyFile, iv, cc, pl, hd, cl>>

\* sleep(delay) resolves; the loop goes on with attempt++
sleep ==
    /\ rt.pc = "sleep"
    /\ rt' = [rt EXCEPT !.pc = "call", !.attempt = @ + 1]
    /\ UNCHANGED <<inputs, orch, dep, wt, op, sig, now, calls, keyFile, iv, cc, pl, hd, cl>>

----------------------------------------------------------------------------
(* InputValidator.validateArtifact (services/validator.ts) *)

MiB == 1024 * 1024

\* the artifact a path names: whether it exists, whether its size can be read
IvInputs ==
    [platform : Platforms, exists : BOOLEAN, sizeReadable : BOOLEAN,
     extension : Extensions,
     size : {0, MiB - 1, MiB, 150 * MiB, 150 * MiB + 1, 200 * MiB, 200 * MiB + 1}]

\* String.prototype.endsWith
endsWith(str, suffix) ==
    /\ Len(str) >= Len(suffix)
    /\ SubSeq(str, Len(str) - Len(suffix) + 1, Len(str)) = suffix

IvStart(in) == [pc |-> "exists", in |-> in, errors |-> <<>>, warnings |-> <<>>]

\* `await this.fs.exists(artifactPath)` resumes; the extension is checked and
\* getFileSize is called
IvExists ==
    /\ iv.pc = "exists"
    /\ iv' = IF ~iv.in.exists
             THEN [iv EXCEPT !.pc = "done",
                             !.errors = Append(@, "Artifact file not found")]
             ELSE LET expectedExtension == IF iv.in.platform = "android" THEN aab ELSE ipa
                  IN  IF ~endsWith(toLowerCase(iv.in.extension), expectedExtension)
                      THEN [iv EXCEPT !.pc = "getFileSize",
                                      !.errors = Append(@, "Invalid artifact type")]
                      ELSE [iv EXCEPT !.pc = "getFileSize"]
    /\ UNCHANGED <<inputs, orch, dep, wt, op, sig, now, calls, keyFile, rt, cc, pl, hd, cl>>

\* `await this.fs.getFileSize(artifactPath)` resumes or throws into the catch
IvFileSize ==
    /\ iv.pc = "getFileSize"
    /\ iv' = IF ~iv.in.sizeReadable
             THEN [iv EXCEPT !.pc = "done",
                             !.warnings = Append(@, "Could not determine artifact file size")]
             ELSE LET fileSize == iv.in.size
                      maxSize == IF iv.in.platform = "android"
                                 THEN 150 * 1024 * 1024 ELSE 200 * 1024 * 1024
                      w1 == IF fileSize > maxSize
                            THEN Append(iv.warnings, "larger than recommended")
                            ELSE iv.warnings
                      w2 == IF fileSize < 1024 * 1024
                            THEN Append(w1, "unusually small")
                            ELSE w1
                  IN  [iv EXCEPT !.pc = "done", !.warnings = w2]
    /\ UNCHANGED <<inputs, orch, dep, wt, op, sig, now, calls, keyFile, rt, cc, pl, hd, cl>>

\* validateAndroidInputs / validateIOSInputs: the credential input is decoded and
\* its structure checked
validatePlatformInputs ==
    /\ iv.pc = "platform"
    /\ iv' = [iv EXCEPT !.pc = "exists",
                        !.errors = IF inputs.credsOk THEN @
                                   ELSE Append(@, "Invalid credential format")]
    /\ UNCHANGED <<inputs, orch, dep, wt, op, sig, now, calls, keyFile, rt, cc, pl, hd, cl>>

\* validateVersionFormat on a semantic version, on digits.digits, on anything
\* else; then validate() returns { isValid, errors, warnings }
validateVersionFormat ==
    /\ orch.pc = "validate" /\ iv.pc = "done"
    /\ \E version \in {"semver", "basic", "invalid"} :
          iv' = [iv EXCEPT !.pc = "returned",
                           !.errors = IF version = "invalid"
                                      THEN Append(@, "Invalid version format") ELSE @,
                           !.warnings = IF version = "basic"
                                        THEN Append(@, "Version format could be improved")
                                        ELSE @]
    /\ UNCHANGED <<inputs, orch, dep, wt, op, sig, now, calls, keyFile, rt, cc, pl, hd, cl>>

\* run() that starts the deployment whatever validate() returned
ValidateInputsIgnoringResult ==
    /\ orch.pc = "validate" /\ iv.pc = "returned"
    /\ orch' = [orch EXCEPT !.pc = "performDeployment", !.groups = groupEnd(@, groupLevel)]
    /\ UNCHANGED <<inputs, dep, wt, op, sig, now, calls, keyFile, rt, iv, cc, pl, hd, cl>>

\* run(): `await this.validator.validate(inputs)` resumes; isValid is
\* errors.length === 0; the ValidationError lands in run()'s own catch
ValidateInputs ==
    /\ orch.pc = "validate" /\ iv.pc = "returned"
    /\ orch' = IF iv.errors = <<>>
               THEN [orch EXCEPT !.pc = "performDeployment",
                                 !.groups = groupEnd(@, groupLevel)]
               ELSE [orch EXCEPT !.pc = "pdThrew",
                                 !.error = ValidationError(Msg("validate", {}))]
    /\ UNCHANGED <<inputs, dep, wt, op, sig, now, calls, keyFile, rt, iv, cc, pl, hd, cl>>

----------------------------------------------------------------------------
(* Two iOS attempts at once (ios-deployer.ts performRealAppStoreUpload).  The   *)
(* key file of an attempt is os.tmpdir()/AuthKey_<appStoreConnectApiKeyId>.p8,  *)
(* so a path is named by the key id.  In one process the attempts interleave    *)
(* at their awaits and execSync blocks them all; in two processes the upload    *)
(* of one overlaps the steps of the other.                                      *)

ApiKeyIds == {"K1", "K2"}
PrivateKeys == {"pk1", "pk2"}
Attempts == {1, 2}

Other(a) == 3 - a

CcStart(k2, key2, sameProcess) ==
    [pc |-> "running", sameProcess |-> sameProcess,
     fs |-> [k \in ApiKeyIds |-> "absent"],
     att |-> <<[pc |-> "createKey", keyId |-> "K1", key |-> "pk1", ok |-> FALSE],
               [pc |-> "createKey", keyId |-> k2, key |-> key2, ok |-> FALSE]>>]

\* execSync of one attempt blocks every other attempt of the same process
CcMayStep(a) ==
    /\ cc.pc = "running"
    /\ cc.sameProcess => cc.att[Other(a)].pc # "uploading"

\* createTemporaryApiKeyFile: `await fs.writeFile(keyFilePath, privateKey)`
ConcurrentCreateKeyFile ==
    \E a \in Attempts :
       /\ CcMayStep(a) /\ cc.att[a].pc = "createKey"
       /\ \E written \in BOOLEAN :
             cc' = IF written
                   THEN [cc EXCEPT !.fs[cc.att[a].keyId] = cc.att[a].key,
                                   !.att[a].pc = "altool"]
                   ELSE [cc EXCEPT !.att[a].pc = "threw"]
       /\ UNCHANGED <<inputs, orch, dep, wt, op, sig, now, calls, keyFile, rt, iv, pl, hd, cl>>

\* uploadWithAltool after its awaits of fs.access and fs.stat: execSync starts
ConcurrentAltoolStart ==
    \E a \in Attempts :
       /\ CcMayStep(a) /\ cc.att[a].pc = "altool"
       /\ cc' = [cc EXCEPT !.att[a].pc = "uploading"]
       /\ UNCHANGED <<inputs, orch, dep, wt, op, sig, now, calls, keyFile, rt, iv, pl, hd, cl>>

\* execSync returns or throws
ConcurrentAltoolEnd ==
    \E a \in Attempts :
       /\ cc.pc = "running" /\ cc.att[a].pc = "uploading"
       /\ \E ok \in BOOLEAN :
             cc' = [cc EXCEPT !.att[a].pc = "cleanup", !.att[a].ok = ok]
       /\ UNCHANGED <<inputs, orch, dep, wt, op, sig, now, calls, keyFile, rt, iv, pl, hd, cl>>

\* the finally block: `await fs.unlink(keyFilePath)`, its failure swallowed
ConcurrentCleanupKeyFile ==
    \E a \in Attempts :
       /\ CcMayStep(a) /\ cc.att[a].pc = "cleanup"
       /\ \E unlinked \in BOOLEAN :
             cc' = [cc EXCEPT !.fs[cc.att[a].keyId] = IF unlinked THEN "absent" ELSE @,
                             !.att[a].pc = IF cc.att[a].ok THEN "done" ELSE "threw"]
       /\ UNCHANGED <<inputs, orch, dep, wt, op, sig, now, calls, keyFile, rt, iv, pl, hd, cl>>

----------------------------------------------------------------------------
(* The App Store Connect REST deployer (class IOSDeployer of                  *)
(* android-deployer.ts): initialise and verify, validate, find the app,       *)
(* upload, wait for build processing.                                         *)

ProcessingStates == {"PROCESSING", "VALID", "INVALID", "FAILED"}

\* credsOk: the private key signs a JWT; remoteOk: the API accepts it;
\* artifactOk: validateArtifact passes; remoteState: the processing state App
\* Store Connect holds for the uploaded build
PlInputs ==
    [credsOk : BOOLEAN, remoteOk : BOOLEAN, artifactOk : BOOLEAN,
     remoteState : ProcessingStates]

PlStart(in) ==
    [pc |-> "init", in |-> in, stateIndex |-> 0, elapsed |-> 0, pollTimes |-> <<>>,
     uploaded |-> FALSE, thrown |-> NoError, error |-> NoError, status |-> "none",
     swallowed |-> 0]

\* deploy()'s catch: the promise rejects with handleDeploymentError(error)
PlThrow(p, error) ==
    [p EXCEPT !.pc = "threw", !.thrown = error, !.error = handleDeploymentError(error)]

\* generateJWTToken, then verifyAPIAccess: one GET /v1/apps
initializeAppStoreConnectAPI ==
    /\ pl.pc = "init"
    /\ IF ~pl.in.credsOk
       THEN /\ \E m \in CredentialMarkerSets :
                  pl' = PlThrow(pl, AuthenticationError(Msg("generateJWTToken", m)))
            /\ calls' = calls
       ELSE \E r \in PlainResponses :
               /\ r.ok => pl.in.remoteOk
               /\ calls' = Append(calls, Call("GET /v1/apps", "none", 0, r.ok, "none"))
               /\ pl' = IF r.ok
                        THEN [pl EXCEPT !.pc = "validate"]
                        ELSE PlThrow(pl, AuthenticationError(Msg("verifyAPIAccess",
                                                                 r.markers)))
    /\ UNCHANGED <<inputs, orch, dep, wt, op, sig, now, keyFile, rt, iv, cc, hd, cl>>

RestValidateArtifact ==
    /\ pl.pc = "validate"
    /\ pl' = IF pl.in.artifactOk
             THEN [pl EXCEPT !.pc = "findApp"]
             ELSE PlThrow(pl, DeploymentError(Msg("deploy", {}),
                                              "ARTIFACT_VALIDATION_FAILED", FALSE))
    /\ UNCHANGED <<inputs, orch, dep, wt, op, sig, now, calls, keyFile, rt, iv, cc, hd, cl>>

\* GET /v1/apps?filter[bundleId]=...: no match and a failed request both end in
\* the NetworkError of the catch
findAppByBundleId ==
    /\ pl.pc = "findApp"
    /\ \E r \in PlainResponses, matches \in {0, 1} :
          /\ calls' = Append(calls, Call("GET /v1/apps?filter[bundleId]", "none", 0,
                                      r.ok /\ matches > 0, "none"))
          /\ pl' = IF r.ok /\ matches > 0
                   THEN [pl EXCEPT !.pc = "upload"]
                   ELSE PlThrow(pl, NetworkError(Msg("findAppByBundleId", r.markers)))
    /\ UNCHANGED <<inputs, orch, dep, wt, op, sig, now, keyFile, rt, iv, cc, hd, cl>>

\* uploadIPA: version, upload operation, file parts and commit, taken as one call
uploadIPA ==
    /\ pl.pc = "upload"
    /\ \E r \in PlainResponses :
          /\ calls' = Append(calls, Call("buildUploads", "none", 0, r.ok, "none"))
          /\ pl' = IF r.ok
                   THEN [pl EXCEPT !.pc = "poll", !.uploaded = TRUE]
                   ELSE PlThrow(pl, NetworkError(Msg("uploadIPA", r.markers)))
    /\ UNCHANGED <<inputs, orch, dep, wt, op, sig, now, keyFile, rt, iv, cc, hd, cl>>

maxWaitTime == 5 * 60 * 1000
pollInterval == 10 * 1000

\* the states waitForBuildProcessing goes through: a fixed list, not a request
processingStates == <<"PROCESSING", "PROCESSING", "PROCESSING", "VALID">>

\* processingStates[stateIndex] || 'VALID'
currentState(stateIndex) ==
    IF stateIndex + 1 \in DOMAIN processingStates
    THEN processingStates[stateIndex + 1] ELSE "VALID"

\* one turn of the while loop of waitForBuildProcessing, up to its await; the
\* try block either runs the switch or throws something that is not a
\* DeploymentError, which the catch block logs before it awaits the interval
waitForBuildProcessing ==
    /\ pl.pc = "poll"
    /\ IF ~(pl.elapsed < maxWaitTime)
       THEN pl' = PlThrow(pl, DeploymentError(Msg("waitForBuildProcessing", {}),
                                              "BUILD_PROCESSING_TIMEOUT", FALSE))
       ELSE LET st == currentState(pl.stateIndex)
                p == [pl EXCEPT !.pollTimes = Append(@, pl.elapsed)]
            IN  \/ pl' = CASE st = "PROCESSING" ->
                               [p EXCEPT !.pc = "wait", !.stateIndex = @ + 1]
                          [] st = "FAILED" ->
                               PlThrow(p, DeploymentError(Msg("waitForBuildProcessing", {}),
                                                          "BUILD_PROCESSING_FAILED", FALSE))
                          [] st = "INVALID" ->
                               PlThrow(p, DeploymentError(Msg("waitForBuildProcessing", {}),
                                                          "BUILD_INVALID", FALSE))
                          [] st = "VALID" -> [p EXCEPT !.pc = "done", !.status = "success"]
                          [] OTHER -> [p EXCEPT !.pc = "wait"]
                \/ pl' = [p EXCEPT !.pc = "wait", !.swallowed = @ + 1]
    /\ UNCHANGED <<inputs, orch, dep, wt, op, sig, now, calls, keyFile, rt, iv, cc, hd, cl>>

\* a wait that resumes without any time having passed
pollIntervalElapsedAtOnce ==
    /\ pl.pc = "wait"
    /\ pl' = [pl EXCEPT !.pc = "poll"]
    /\ UNCHANGED <<inputs, orch, dep, wt, op, sig, now, calls, keyFile, rt, iv, cc, hd, cl>>

\* `await new Promise(resolve => setTimeout(resolve, pollInterval))` resumes, on
\* time or late
pollIntervalElapsed ==
    /\ pl.pc = "wait"
    /\ \E late \in {0, maxWaitTime} :
          pl' = [pl EXCEPT !.pc = "poll", !.elapsed = @ + pollInterval + late]
    /\ UNCHANGED <<inputs, orch, dep, wt, op, sig, now, calls, keyFile, rt, iv, cc, hd, cl>>

----------------------------------------------------------------------------
(* HttpClientService.sanitizeHeaders (http-client.ts).  A header map is the    *)
(* sequence of its entries in the order of Object.keys; keys are distinct as    *)
(* strings.                                                                    *)

HeaderKeys ==
    {"authorization", "Authorization", "X-Api-Key", "cookie", "Set-Cookie", "content-type"}

\* String.prototype.toLowerCase on the header names that occur
HeaderLower(k) ==
    CASE k = "Authorization" -> "authorization"
      [] k = "X-Api-Key" -> "x-api-key"
      [] k = "Set-Cookie" -> "set-cookie"
      [] OTHER -> k

\* header maps with distinct keys; the empty string is the falsy value
HeaderMaps ==
    {h \in UNION {[1..n -> [key : HeaderKeys, value : {"v1", "v2", ""}]] :
                     n \in 0..MaxHeaders} :
        \A i, j \in DOMAIN h : i # j => h[i].key # h[j].key}

sensitiveHeaders == <<"authorization", "x-api-key", "cookie", "set-cookie">>

\* Object.keys(sanitized).find(k => k.toLowerCase() === header): the index of
\* the first such key, 0 when there is none
findKey(sanitized, header) ==
    LET matching == {i \in DOMAIN sanitized : HeaderLower(sanitized[i].key) = header}
    IN  IF matching = {} THEN 0
        ELSE CHOOSE i \in matching : \A j \in matching : i <= j

\* the body of the forEach for one sensitive header
redactHeader(sanitized, header) ==
    LET key == findKey(sanitized, header)
    IN  IF key # 0 /\ sanitized[key].value # ""
        THEN [sanitized EXCEPT ![key].value = "[REDACTED]"]
        ELSE sanitized

RECURSIVE redactFrom(_, _)
\* sensitiveHeaders.forEach(...), from the n-th sensitive header on
redactFrom(sanitized, n) ==
    IF n > Len(sensitiveHeaders) THEN sanitized
    ELSE redactFrom(redactHeader(sanitized, sensitiveHeaders[n]), n + 1)

sanitizeHeaders(headers) == redactFrom(headers, 1)

HdStart(headers) == [pc |-> "log", headers |-> headers, logged |-> <<>>]

\* an interceptor logs { headers: this.sanitizeHeaders(headers) }
LogHeaders ==
    /\ hd.pc = "log"
    /\ hd' = [hd EXCEPT !.pc = "logged", !.logged = sanitizeHeaders(hd.headers)]
    /\ UNCHANGED <<inputs, orch, dep, wt, op, sig, now, calls, keyFile, rt, iv, cc, pl, cl>>

----------------------------------------------------------------------------
(* The text of error messages (base-deployer.ts isRetryableError).  A message  *)
(* is the sequence of its characters.                                          *)

\* the characters of the string literals that occur
Chars(word) ==
    CASE word = "network" -> <<"n", "e", "t", "w", "o", "r", "k">>
      [] word = "timeout" -> <<"t", "i", "m", "e", "o", "u", "t">>
      [] word = "ECONNRESET" -> <<"E", "C", "O", "N", "N", "R", "E", "S", "E", "T">>
      [] word = "ETIMEDOUT" -> <<"E", "T", "I", "M", "E", "D", "O", "U", "T">>
      [] word = "rate limit" -> <<"r", "a", "t", "e", " ", "l", "i", "m", "i", "t">>
      [] word = "429" -> <<"4", "2", "9">>
      [] word = "too many requests" -> <<"t", "o", "o", " ", "m", "a", "n", "y", " ", "r", "e", "q", "u", "e", "s", "t", "s">>
      [] word = "500" -> <<"5", "0", "0">>
      [] word = "502" -> <<"5", "0", "2">>
      [] word = "503" -> <<"5", "0", "3">>
      [] word = "504" -> <<"5", "0", "4">>
      [] word = "Network" -> <<"N", "e", "t", "w", "o", "r", "k">>
      [] word = "timed out" -> <<"t", "i", "m", "e", "d", " ", "o", "u", "t">>
      [] word = "net" -> <<"n", "e", "t">>
      [] word = "work" -> <<"w", "o", "r", "k">>
      [] word = "42" -> <<"4", "2">>
      [] word = "9" -> <<"9">>
      [] word = "50" -> <<"5", "0">>
      [] word = "4" -> <<"4">>
      [] word = "404" -> <<"4", "0", "4">>
      [] word = " " -> <<" ">>

RECURSIVE indexOfFrom(_, _, _)
\* s.indexOf(t, i - 1) + 1: the first position from i on where t occurs, else 0
indexOfFrom(s, t, i) ==
    IF i + Len(t) - 1 > Len(s) THEN 0
    ELSE IF \A k \in 1..Len(t) : s[i + k - 1] = t[k] THEN i
    ELSE indexOfFrom(s, t, i + 1)

\* String.prototype.includes
includes(s, t) == indexOfFrom(s, t, 1) # 0

\* the markers for which error.message.includes(marker) is true
messageMarkers(text) == {marker \in RetryMarkers : includes(text, Chars(marker))}

\* the pieces messages are made of: the markers and texts close to them
MessageFragments ==
    {Chars(word) : word \in RetryMarkers \cup
        {"Network", "timed out", "net", "work", "42", "9", "50", "4", "404", " "}}

RECURSIVE MessagesOf(_)
\* the messages made of n fragments
MessagesOf(n) ==
    IF n = 0 THEN {<<>>}
    ELSE {m \o f : m \in MessagesOf(n - 1), f \in MessageFragments}

ClMessages == UNION {MessagesOf(n) : n \in 1..MaxFragments}

ClStart(text, error) ==
    [pc |-> "caught", text |-> text, error |-> error, thrown |-> NoError]

\* catch (error) { throw this.handleDeploymentError(error, ...) }
RethrowDeploymentError ==
    /\ cl.pc = "caught"
    /\ cl' = [cl EXCEPT !.pc = "rethrown", !.thrown = handleDeploymentError(cl.error)]
    /\ UNCHANGED <<inputs, orch, dep, wt, op, sig, now, calls, keyFile, rt, iv, cc, pl, hd>>

----------------------------------------------------------------------------
(* Specifications *)

\* a component that takes no part in a run
Idle == [pc |-> "idle"]

IdleInputs ==
    [platform |-> "android", dryRun |-> FALSE, timeoutMinutes |-> 1, exists |-> TRUE,
     readable |-> TRUE, extension |-> aab, size |-> AndroidMaxSize, credsOk |-> TRUE,
     remoteOk |-> TRUE, packageName |-> "com.example.app", track |-> "beta"]

InitAction ==
    /\ inputs \in InputSpace
    /\ orch = OrchStart
    /\ dep = DepIdle
    /\ wt = WtIdle
    /\ op = OpIdle
    /\ sig = SigNone
    /\ now = 0
    /\ calls = <<>>
    /\ keyFile = FALSE
    /\ rt = Idle
    /\ iv = Idle
    /\ cc = Idle
    /\ pl = Idle
    /\ hd = Idle
    /\ cl = Idle

InitHarness ==
    /\ inputs = IdleInputs
    /\ orch = [OrchStart EXCEPT !.pc = "harness"]
    /\ dep = DepIdle
    /\ wt = WtIdle
    /\ op = OpIdle
    /\ sig \in {SigNone} \cup {[present |-> TRUE, aborted |-> a, owned |-> TRUE] :
                                   a \in BOOLEAN}
    /\ now = 0
    /\ calls = <<>>
    /\ keyFile = FALSE
    /\ rt = Idle
    /\ iv = Idle
    /\ cc = Idle
    /\ pl = Idle
    /\ hd = Idle
    /\ cl = Idle

Init == InitAction \/ InitHarness

Next ==
    \/ ValidateArtifactStep
    \/ CreateDeployerAndDeploy
    \/ AwaitWithTimeout
    \/ RunSuccess
    \/ RunFailure
    \/ Tick
    \/ TimerFire
    \/ AbortFire
    \/ DryRunValidateArtifact
    \/ DryRunPlatformValidations
    \/ initializeGooglePlayAPI
    \/ AndroidValidateArtifact
    \/ createEditSession
    \/ uploadAAB
    \/ updateTrack
    \/ commitEditSession
    \/ cleanupEditSession
    \/ checkSystemRequirements
    \/ IOSValidateArtifact
    \/ createTemporaryApiKeyFile
    \/ uploadWithAltool
    \/ cleanupTemporaryApiKeyFile
    \/ HarnessStart
    \/ HarnessFulfil
    \/ HarnessReject

Spec == Init /\ [][Next]_vars

\* timers of the event loop do fire, and time does pass
SpecTimeout ==
    InitHarness /\ [][
        \/ Tick
        \/ TimerFire
        \/ AbortFire
        \/ HarnessStart
        \/ HarnessFulfil
        \/ HarnessReject
      ]_vars /\ WF_vars(Tick) /\ WF_vars(TimerFire)

\* the event loop runs a callback that is ready (a due timer, the continuation of
\* a settled await) before any noticeable time passes
PromptTick ==
    /\ ~(Alive /\ TimerDue(wt, now))
    /\ ~(orch.pc = "awaitDeploy" /\ wt.state \in {"fulfilled", "rejected"})
    /\ Tick

\* an attempt under an event loop that is prompt and fair to timers and to the
\* orchestrator's continuations; the deployer's own steps may never come
SpecDeadline ==
    InitAction /\ [][
        \/ ValidateArtifactStep
        \/ CreateDeployerAndDeploy
        \/ AwaitWithTimeout
        \/ RunSuccess
        \/ RunFailure
        \/ PromptTick
        \/ TimerFire
        \/ DryRunValidateArtifact
        \/ DryRunPlatformValidations
        \/ initializeGooglePlayAPI
        \/ AndroidValidateArtifact
        \/ createEditSession
        \/ uploadAAB
        \/ updateTrack
        \/ commitEditSession
        \/ cleanupEditSession
        \/ checkSystemRequirements
        \/ IOSValidateArtifact
        \/ createTemporaryApiKeyFile
        \/ uploadWithAltool
        \/ cleanupTemporaryApiKeyFile
      ]_vars
    /\ WF_vars(PromptTick) /\ WF_vars(TimerFire) /\ WF_vars(AwaitWithTimeout)

\* executeWithRetry's shouldRetry is required by RetryConfig; withRetry's is optional
InitRetry ==
    /\ inputs = IdleInputs
    /\ orch = [OrchStart EXCEPT !.pc = "idle"]
    /\ dep = DepIdle
    /\ wt = WtIdle
    /\ op = OpIdle
    /\ sig = SigNone
    /\ now = 0
    /\ calls = <<>>
    /\ keyFile = FALSE
    /\ iv = Idle
    /\ cc = Idle
    /\ pl = Idle
    /\ hd = Idle
    /\ cl = Idle
    /\ \E cfg \in RetryConfigs :
          \/ rt = RtStart("withRetry", cfg)
          \/ cfg.shouldRetry # "absent" /\ rt = RtStart("executeWithRetry", cfg)

SpecRetry == InitRetry /\ [][
        \/ withRetry
        \/ executeWithRetry
        \/ sleep
      ]_vars

InitConcurrent ==
    /\ inputs = IdleInputs
    /\ orch = [OrchStart EXCEPT !.pc = "idle"]
    /\ dep = DepIdle
    /\ wt = WtIdle
    /\ op = OpIdle
    /\ sig = SigNone
    /\ now = 0
    /\ calls = <<>>
    /\ keyFile = FALSE
    /\ rt = Idle
    /\ iv = Idle
    /\ \E k2 \in ApiKeyIds, key2 \in PrivateKeys, sameProcess \in BOOLEAN :
          cc = CcStart(k2, key2, sameProcess)
    /\ pl = Idle
    /\ hd = Idle
    /\ cl = Idle

SpecConcurrent == InitConcurrent /\ [][
        \/ ConcurrentCreateKeyFile
        \/ ConcurrentAltoolStart
        \/ ConcurrentAltoolEnd
        \/ ConcurrentCleanupKeyFile
      ]_vars

InitRest ==
    /\ inputs = IdleInputs
    /\ orch = [OrchStart EXCEPT !.pc = "idle"]
    /\ dep = DepIdle
    /\ wt = WtIdle
    /\ op = OpIdle
    /\ sig = SigNone
    /\ now = 0
    /\ calls = <<>>
    /\ keyFile = FALSE
    /\ rt = Idle
    /\ iv = Idle
    /\ cc = Idle
    /\ \E in \in PlInputs : pl = PlStart(in)
    /\ hd = Idle
    /\ cl = Idle

SpecRest == InitRest /\ [][
        \/ initializeAppStoreConnectAPI
        \/ RestValidateArtifact
        \/ findAppByBundleId
        \/ uploadIPA
        \/ waitForBuildProcessing
        \/ pollIntervalElapsed
      ]_vars
    /\ WF_vars(waitForBuildProcessing) /\ WF_vars(pollIntervalElapsed)

\* run() from the validation of the parsed inputs on; the validator and the
\* orchestrator look at the same artifact
InitRun ==
    /\ inputs \in {in \in InputSpace : in.timeoutMinutes = 1}
    /\ orch = [OrchStart EXCEPT !.pc = "validate", !.groups = group(0)]
    /\ dep = DepIdle
    /\ wt = WtIdle
    /\ op = OpIdle
    /\ sig = SigNone
    /\ now = 0
    /\ calls = <<>>
    /\ keyFile = FALSE
    /\ rt = Idle
    /\ iv = [IvStart([platform |-> inputs.platform, exists |-> inputs.exists,
                      sizeReadable |-> inputs.readable,
                      extension |-> inputs.extension, size |-> inputs.size])
               EXCEPT !.pc = "platform"]
    /\ cc = Idle
    /\ pl = Idle
    /\ hd = Idle
    /\ cl = Idle

SpecRun == InitRun /\ [][
        \/ validatePlatformInputs
        \/ IvExists
        \/ IvFileSize
        \/ validateVersionFormat
        \/ ValidateInputs
        \/ ValidateArtifactStep
        \/ CreateDeployerAndDeploy
        \/ AwaitWithTimeout
        \/ RunSuccess
        \/ RunFailure
        \/ DryRunValidateArtifact
        \/ DryRunPlatformValidations
        \/ initializeGooglePlayAPI
        \/ AndroidValidateArtifact
        \/ createEditSession
        \/ uploadAAB
        \/ updateTrack
        \/ commitEditSession
        \/ cleanupEditSession
        \/ checkSystemRequirements
        \/ IOSValidateArtifact
        \/ createTemporaryApiKeyFile
        \/ uploadWithAltool
        \/ cleanupTemporaryApiKeyFile
      ]_vars

InitHeaders ==
    /\ inputs = IdleInputs
    /\ orch = [OrchStart EXCEPT !.pc = "idle"]
    /\ dep = DepIdle
    /\ wt = WtIdle
    /\ op = OpIdle
    /\ sig = SigNone
    /\ now = 0
    /\ calls = <<>>
    /\ keyFile = FALSE
    /\ rt = Idle
    /\ iv = Idle
    /\ cc = Idle
    /\ pl = Idle
    /\ \E headers \in HeaderMaps : hd = HdStart(headers)
    /\ cl = Idle

SpecHeaders == InitHeaders /\ [][LogHeaders]_vars

InitClassify ==
    /\ inputs = IdleInputs
    /\ orch = [OrchStart EXCEPT !.pc = "idle"]
    /\ dep = DepIdle
    /\ wt = WtIdle
    /\ op = OpIdle
    /\ sig = SigNone
    /\ now = 0
    /\ calls = <<>>
    /\ keyFile = FALSE
    /\ rt = Idle
    /\ iv = Idle
    /\ cc = Idle
    /\ pl = Idle
    /\ hd = Idle
    /\ \E text \in ClMessages :
          \E error \in {PlainError(Msg("deploy", messageMarkers(text))),
                        NetworkError(Msg("deploy", messageMarkers(text))),
                        AuthenticationError(Msg("deploy", messageMarkers(text)))} :
             cl = ClStart(text, error)

SpecClassify == InitClassify /\ [][RethrowDeploymentError]_vars

InitValidator ==
    /\ inputs = IdleInputs
    /\ orch = [OrchStart EXCEPT !.pc = "idle"]
    /\ dep = DepIdle
    /\ wt = WtIdle
    /\ op = OpIdle
    /\ sig = SigNone
    /\ now = 0
    /\ calls = <<>>
    /\ keyFile = FALSE
    /\ rt = Idle
    /\ \E in \in IvInputs : iv = IvStart(in)
    /\ cc = Idle
    /\ pl = Idle
    /\ hd = Idle
    /\ cl = Idle

SpecValidator == InitValidator /\ [][
        \/ IvExists
        \/ IvFileSize
      ]_vars

----------------------------------------------------------------------------
(* Properties *)

CallIndices(api) == {i \in DOMAIN calls : calls[i].api = api}

AndroidRun == orch.pc # "harness" /\ dep.platform = "android"

\* an edit session was opened: edits.insert answered with an id
SessionOpened == AndroidRun /\ dep.editId # "none"

\* C1: once a session was opened and a later step (upload, track update, commit)
\* has failed, deploy() never fulfils, and when it rejects a delete of that very
\* session is the last call issued, after the failing call; no result or output
\* is ever reported; and when createEditSession failed no delete is ever issued.
C1_CompensatingDelete ==
    /\ (SessionOpened /\ dep.err # NoError) =>
          /\ op.state \in {"pending", "rejected"}
          /\ orch.result = NoResult /\ orch.outputs = NoResult
          /\ op.state = "rejected" =>
                /\ Len(calls) >= 3
                /\ calls[Len(calls)].api = "edits.delete"
                /\ calls[Len(calls)].editId = calls[1].retId
                /\ calls[Len(calls) - 1].api
                      \in {"edits.bundles.upload", "edits.tracks.update", "edits.commit"}
                /\ ~calls[Len(calls) - 1].ok
                /\ op.value.kind = "DeploymentError"
    /\ (AndroidRun /\ ~SessionOpened) => CallIndices("edits.delete") = {}
    /\ AndroidRun => \A i \in CallIndices("edits.delete") : calls[i].editId = calls[1].retId

C1_Witness ==
    /\ SessionOpened /\ op.state = "rejected"
    /\ calls[Len(calls)].api = "edits.delete"
    /\ calls[Len(calls) - 1].api = "edits.tracks.update"
    /\ orch.pc = "exited"

AndroidOrder == <<"edits.insert", "edits.bundles.upload", "edits.tracks.update", "edits.commit">>

\* the calls other than the compensating delete
ForwardCalls == SelectSeq(calls, LAMBDA c : c.api # "edits.delete")

\* C2: the calls are issued in the order insert, upload, track update, commit,
\* each one only after the one before it succeeded, each later call carrying the
\* edit id the insert returned; a success result exists only after a successful
\* commit.
C2_AndroidCallOrder ==
    AndroidRun =>
       /\ Len(ForwardCalls) <= 4
       /\ \A i \in DOMAIN ForwardCalls :
             /\ ForwardCalls[i].api = AndroidOrder[i]
             /\ i > 1 => /\ ForwardCalls[i - 1].ok
                         /\ ForwardCalls[i].editId = ForwardCalls[1].retId
                         /\ ForwardCalls[i].editId # "none"
       /\ (op.state = "fulfilled" /\ ~op.value.dryRun) =>
             /\ Len(calls) = 4
             /\ calls[4].api = "edits.commit" /\ calls[4].ok
             /\ calls[3].api = "edits.tracks.update" /\ calls[3].ok
             /\ calls[2].api = "edits.bundles.upload" /\ calls[2].ok
       /\ (orch.result # NoResult /\ ~orch.result.dryRun) =>
             (Len(calls) = 4 /\ calls[4].api = "edits.commit" /\ calls[4].ok)

C2_Witness ==
    /\ AndroidRun /\ orch.pc = "done" /\ ~orch.outputs.dryRun
    /\ orch.outputs.status = "success"
    /\ calls[4].api = "edits.commit" /\ calls[4].editId = "e2"

StepOrigins == {"uploadAAB", "updateTrack", "commitEditSession", "uploadWithAltool"}

\* C3: when the cleanup (session deletion, credential file removal) itself fails,
\* the error deploy() rejects with is the failed step's error, wrapped, and a run
\* whose steps all succeeded still fulfils.
C3_CleanupFailureSwallowed ==
    (orch.pc # "harness" /\ dep.cleanupFailed) =>
       /\ op.state # "pending"
       /\ dep.err # NoError =>
             /\ op.state = "rejected"
             /\ op.value = handleDeploymentError(dep.err)
             /\ op.value.msg.origin \in StepOrigins
       /\ dep.err = NoError =>
             /\ dep.uploaded /\ op.state = "fulfilled" /\ op.value.status = "success"
       /\ orch.error # NoError => orch.error.msg.origin \in StepOrigins \cup {"withTimeout"}

C3_Witness ==
    /\ dep.platform = "android" /\ dep.cleanupFailed
    /\ op.state = "rejected" /\ op.value.msg.origin = "commitEditSession"
    /\ orch.pc = "exited" /\ orch.failedMsg.origin = "commitEditSession"

TimedOut == wt.state = "rejected" /\ wt.value.kind = "TimeoutError"

AbortDelivered == \E i \in DOMAIN wt.events : wt.events[i].ev = "abort"

\* C4: withTimeout around an operation that never settles (and whose signal is
\* not fired) fails with TimeoutError and with nothing else, never before
\* timeoutMs has elapsed since the call, and it does eventually fail so.
C4_TimeoutAtOrAfterDeadline ==
    /\ [](TimedOut => now >= wt.startedAt + wt.timeoutMs)
    /\ []((wt.state \in {"fulfilled", "rejected"} /\ op.state = "pending" /\ ~AbortDelivered)
            => TimedOut)
    /\ ((wt.state = "pending") ~> (TimedOut \/ op.state # "pending" \/ AbortDelivered))

C4_Witness ==
    /\ TimedOut /\ op.state = "pending" /\ ~AbortDelivered
    /\ wt.timeoutMs = 2 * 60 * 1000 /\ wt.startedAt > 0
    /\ now = wt.startedAt + wt.timeoutMs

TimedOutFirst == wt.events # <<>> /\ wt.events[1].ev = "deadline"

\* C5: once the deadline of performDeployment's withTimeout has fired first, the
\* orchestrator never returns a result nor sets outputs, whatever deploy() does
\* later, and the error it throws is the timeout; and the promise of withTimeout
\* is settled exactly by the first of deadline, abort, fulfilment and rejection.
C5_NoResultAfterTimeout ==
    /\ (orch.pc # "harness" /\ TimedOutFirst) =>
          /\ orch.pc \in {"awaitDeploy", "pdThrew", "exited"}
          /\ orch.result = NoResult /\ orch.outputs = NoResult
          /\ orch.pc # "awaitDeploy" =>
                /\ orch.error.msg.origin = "withTimeout"
                /\ orch.error.code = "TimeoutError"
    /\ wt.state \in {"idle", "pending"} => wt.events = <<>>
    /\ wt.state \in {"fulfilled", "rejected"} =>
          /\ wt.events # <<>>
          /\ wt.value = wt.events[1].value
          /\ wt.state = (IF wt.events[1].ev = "fulfil" THEN "fulfilled" ELSE "rejected")
          /\ wt.events[1].ev = "deadline" => wt.value.kind = "TimeoutError"
          /\ wt.events[1].ev = "abort" => wt.value.code = "ABORTED"
          /\ wt.events[1].ev \in {"fulfil", "reject"} => wt.value = op.value

C5_Witness ==
    /\ orch.pc = "exited" /\ TimedOutFirst
    /\ op.state = "fulfilled" /\ op.value.status = "success"
    /\ Len(wt.events) = 2 /\ wt.events[2].ev = "fulfil"

RetryRun == rt.pc # "idle"

CallEvents == SelectSeq(rt.trace, LAMBDA x : x.ev = "call")
SleepEvents == SelectSeq(rt.trace, LAMBDA x : x.ev = "sleep")

RECURSIVE Times(_, _, _)
\* d * f * ... * f, with n factors f
Times(d, f, n) == IF n = 0 THEN d ELSE Times(d * f, f, n - 1)

ExpectedDelay(cfg, k) ==
    IF Times(cfg.initialDelay, cfg.backoffFactor, k - 1) < cfg.maxDelay
    THEN Times(cfg.initialDelay, cfg.backoffFactor, k - 1)
    ELSE cfg.maxDelay

\* the caller's classification of an error under the policy of the run
Retryable(error) ==
    CASE rt.cfg.shouldRetry = "absent" -> TRUE
      [] rt.cfg.shouldRetry = "always" -> TRUE
      [] rt.cfg.shouldRetry = "never" -> FALSE
      [] OTHER -> error.kind \in {"NetworkError", "TimeoutError"}

\* C6: in withRetry and in executeWithRetry the first event is a call, the k-th
\* delay slept is min(d * f^(k-1), m) and follows failed attempt k, and a run
\* that failed on all N attempts has slept exactly N-1 delays.
C6_RetryDelaySequence ==
    RetryRun =>
       /\ rt.trace # <<>> => rt.trace[1].ev = "call"
       /\ \A k \in DOMAIN SleepEvents :
             SleepEvents[k].value = ExpectedDelay(rt.cfg, k)
       /\ \A i \in DOMAIN rt.trace :
             rt.trace[i].ev = "sleep" =>
                /\ i > 1 /\ rt.trace[i - 1].ev = "call" /\ ~rt.trace[i - 1].ok
                /\ rt.trace[i - 1].n = Len(SelectSeq(SubSeq(rt.trace, 1, i),
                                                     LAMBDA x : x.ev = "sleep"))
       /\ (rt.pc = "threw" /\ Len(CallEvents) = rt.cfg.maxAttempts) =>
             Len(SleepEvents) = rt.cfg.maxAttempts - 1

C6_Witness ==
    /\ rt.variant = "executeWithRetry" /\ rt.pc = "threw"
    /\ rt.cfg.maxAttempts = 3 /\ Len(SleepEvents) = 2
    /\ SleepEvents[1].value = 1000 /\ SleepEvents[2].value = 1500

\* C7: the operation is invoked at least once and at most N times; a returned
\* value is the value of the first successful attempt, which is the last call; a
\* delay is slept only after a failed attempt that is not the N-th and whose error
\* is retryable; a thrown error is the error of the last call, which is the N-th
\* or not retryable, and no delay follows it.
C7_RetryAttempts ==
    RetryRun =>
       /\ Len(CallEvents) <= rt.cfg.maxAttempts
       /\ \A j \in DOMAIN CallEvents : CallEvents[j].n = j
       /\ rt.pc \in {"returned", "threw"} =>
             /\ Len(CallEvents) >= 1
             /\ rt.trace[Len(rt.trace)].ev = "call"
       /\ rt.pc = "returned" =>
             /\ rt.trace[Len(rt.trace)].ok
             /\ rt.value = rt.trace[Len(rt.trace)].value
             /\ \A j \in 1..(Len(CallEvents) - 1) : ~CallEvents[j].ok
       /\ rt.pc = "threw" =>
             /\ ~rt.trace[Len(rt.trace)].ok
             /\ rt.error = rt.trace[Len(rt.trace)].error
             /\ \/ Len(CallEvents) = rt.cfg.maxAttempts
                \/ ~Retryable(rt.error)
       /\ \A i \in DOMAIN rt.trace :
             rt.trace[i].ev = "sleep" =>
                /\ ~rt.trace[i - 1].ok
                /\ rt.trace[i - 1].n < rt.cfg.maxAttempts
                /\ Retryable(rt.trace[i - 1].error)
       /\ \A i \in DOMAIN rt.trace :
             (rt.trace[i].ev = "call" /\ i < Len(rt.trace)) =>
                /\ ~rt.trace[i].ok
                /\ rt.trace[i + 1].ev = "sleep"
                /\ Retryable(rt.trace[i].error)

C7_Witness ==
    /\ rt.variant = "withRetry" /\ rt.pc = "threw"
    /\ rt.cfg.maxAttempts = 3 /\ rt.cfg.shouldRetry = "default"
    /\ Len(CallEvents) = 2 /\ rt.error.kind = "Error"

TransportFailures == {"503", "429", "no response"}

\* C8: under DEFAULT_RETRY_CONFIG a first attempt that fails with 503, 429 or no
\* response is retried: the call does not end with that error, one delay is
\* slept, and a second attempt answering 200 makes the call return its body.
C8_TransportFailureRetried ==
    (/\ RetryRun /\ rt.variant = "executeWithRetry" /\ rt.cfg = DEFAULT_RETRY_CONFIG
     /\ rt.trace # <<>>
     /\ rt.trace[1].error.kind = "AxiosError"
     /\ rt.trace[1].error.msg.markers \cap TransportFailures # {}) =>
        /\ rt.pc # "threw" \/ Len(CallEvents) >= 2
        /\ Len(rt.trace) >= 2 /\ rt.trace[2].ev = "sleep"

ExtensionMatches(in) ==
    IF in.platform = "android" THEN in.extension \in {aab, AAB} ELSE in.extension \in {ipa, Ipa}

HardCeiling(in) == IF in.platform = "android" THEN 209715200 ELSE 262144000

ArtifactValidated == orch.pc \notin {"harness", "idle", "performDeployment"}

C10_TerminalErrorCode ==
    (/\ orch.pc \in {"pdThrew", "exited"}
     /\ inputs.platform = "android" /\ inputs.exists /\ inputs.readable
     /\ inputs.extension = aab /\ inputs.size = 209715200 + 1) =>
        /\ calls = <<>> /\ ~orch.deployerCreated
        /\ orch.error.code = "ARTIFACT_TOO_LARGE"

AdvisoryCeiling(platform) == IF platform = "android" THEN 157286400 ELSE 209715200

\* C11: an existing artifact with the platform's extension and a size below the
\* advisory ceiling passes the input-validation pass with no error and no
\* warning, whatever that size is.
C11_NoWarningBelowAdvisoryCeiling ==
    (/\ iv.pc = "done"
     /\ iv.in.exists /\ iv.in.sizeReadable
     /\ toLowerCase(iv.in.extension) = (IF iv.in.platform = "android" THEN aab ELSE ipa)
     /\ iv.in.size < AdvisoryCeiling(iv.in.platform)) =>
        /\ iv.errors = <<>>
        /\ iv.warnings = <<>>

DryRun == orch.pc \notin {"harness", "idle"} /\ inputs.dryRun

StoreUrls == {"play.google.com/store/apps/details", "appstoreconnect.apple.com/apps"}

\* C12: in a deployment with dryRun set no edit session is created, no upload,
\* track update or commit is issued, no credential file is written and the
\* upload tool is not invoked; a dry run that passes returns status success
\* with dryRun = true and the synthetic dry-run URL, not a store URL.
C12_DryRunChangesNothing ==
    DryRun =>
       /\ calls = <<>>
       /\ keyFile = FALSE
       /\ dep.editId = "none" /\ ~dep.uploaded
       /\ dep.pc \in {"idle", "dryValidate", "dryPlatform", "done", "threw"}
       /\ op.state = "fulfilled" =>
             /\ op.value.status = "success"
             /\ op.value.dryRun = TRUE
             /\ op.value.url \notin StoreUrls
             /\ op.value.url = (IF inputs.platform = "android"
                                THEN "play.google.com/console/developers (dry run)"
                                ELSE "appstoreconnect.apple.com (dry run)")
       /\ orch.pc = "done" => orch.outputs.dryRun = TRUE

C12_Witness ==
    /\ DryRun /\ inputs.platform = "android"
    /\ orch.pc = "done" /\ orch.outputs.status = "success" /\ orch.outputs.dryRun = TRUE
    /\ calls = <<>>

\* C13: a dry run whose credential the remote API would reject, or whose remote
\* API is unreachable, does not return a success result.
C13_DryRunChecksRemote ==
    (DryRun /\ ~inputs.remoteOk) =>
       /\ op.state # "fulfilled"
       /\ orch.pc \notin {"pdReturned", "done"}

\* the rejection of deploy() is what withTimeout passed on to performDeployment
DeployerErrorReported ==
    /\ orch.pc \in {"pdThrew", "exited"}
    /\ op.state = "rejected" /\ wt.state = "rejected" /\ wt.value = op.value

\* C14: a failure raised inside a deployer is wrapped once, by the deployer; the
\* error performDeployment throws carries the code and the retryable flag the
\* deployer assigned.
C14_WrappedExactlyOnce ==
    /\ (orch.pc \in {"pdThrew", "exited"} /\ orch.deployerCreated) => orch.error # NoError
    /\ DeployerErrorReported =>
          /\ orch.error.code = op.value.code
          /\ orch.error.retryable = op.value.retryable

\* C15: an AuthenticationError thrown by API initialisation leaves deploy() with
\* retryable = false, whatever the message of the underlying failure.
C15_AuthenticationNeverRetryable ==
    (op.state = "rejected" /\ op.value.code = "AuthenticationError") =>
        op.value.retryable = FALSE

\* C16: a NetworkError thrown by an Android step, and the failure raised for the
\* upload tool's 'Network error' diagnostic, leave deploy() with retryable = true,
\* whatever the message of the underlying failure.
C16_NetworkFailureRetryable ==
    (/\ orch.pc # "harness" /\ op.state = "rejected"
     /\ \/ op.value.code = "NetworkError"
        \/ dep.thrown.kind = "NetworkError") =>
        op.value.retryable = TRUE

\* C17: when the outer timeout fired the error performDeployment throws is a
\* timeout error with retryable = true; otherwise it is retryable exactly when the
\* failure was a NetworkError.
C17_TerminalRetryableByKind ==
    (orch.pc \in {"pdThrew", "exited"}) =>
       /\ (wt.state = "rejected" /\ wt.value.kind = "TimeoutError") =>
             /\ orch.error.code = "TimeoutError"
             /\ orch.error.retryable = TRUE
       /\ DeployerErrorReported =>
             orch.error.retryable = (op.value.code = "NetworkError")
       /\ orch.vaError # NoError => orch.error.retryable = FALSE

AltoolFailed == dep.thrown # NoError

AuthenticationCodes == {"AuthenticationError", "AUTHENTICATION_ERROR"}

\* C18: when the upload tool fails with 'Unable to authenticate' in its output,
\* deploy() and performDeployment both fail with an authentication error that is
\* not retryable.
C18_AltoolAuthenticationFailure ==
    (AltoolFailed /\ "Unable to authenticate" \in dep.diag.patterns) =>
       /\ op.state # "fulfilled"
       /\ op.state = "rejected" =>
             /\ op.value.code \in AuthenticationCodes
             /\ op.value.retryable = FALSE
       /\ DeployerErrorReported =>
             /\ orch.error.code \in AuthenticationCodes
             /\ orch.error.retryable = FALSE

\* the error code the patterns of a diagnostic select, in the order of the claim
TargetedCode(patterns) ==
    CASE "Unable to authenticate" \in patterns -> "AUTHENTICATION_ERROR"
      [] "Invalid bundle identifier" \in patterns -> "INVALID_BUNDLE_ID"
      [] "The provided entity name is not unique" \in patterns -> "DUPLICATE_VERSION"
      [] "Invalid provisioning profile" \in patterns -> "INVALID_PROVISIONING_PROFILE"
      [] "Network error" \in patterns -> "NETWORK_ERROR"
      [] OTHER -> "ALTOOL_ERROR"

\* C19: a failed run of the upload tool never ends in success; the error raised
\* for it is the one selected by the first matching pattern, and the error that
\* leaves uploadWithAltool still carries that kind.
C19_AltoolTargetedError ==
    AltoolFailed =>
       /\ ~dep.uploaded /\ op.state # "fulfilled"
       /\ dep.thrown.code = TargetedCode(dep.diag.patterns)
       /\ dep.err.code = TargetedCode(dep.diag.patterns)

\* C20: in a real iOS deployment the credential file exists while the upload
\* tool runs and no longer exists once performRealAppStoreUpload has returned
\* or thrown.
C20_KeyFileScopedToUpload ==
    (orch.pc # "harness" /\ dep.platform = "ios" /\ ~inputs.dryRun) =>
       /\ dep.pc = "altool" => keyFile = TRUE
       /\ (dep.pc \in {"done", "threw"} /\ calls # <<>>) => keyFile = FALSE

\* C21: while an attempt is between the creation of its credential file and the
\* end of its upload call, the file at its path exists and holds its own key,
\* whatever the other attempt does, also when both use the same API key id.
C21_CredentialFilesIndependent ==
    cc.pc = "running" =>
       \A a \in Attempts :
          cc.att[a].pc \in {"altool", "uploading"} =>
             cc.fs[cc.att[a].keyId] = cc.att[a].key

RestRun == pl.pc # "idle"

\* C22: once the build is uploaded, a build whose reported state is INVALID or
\* FAILED ends the deployment with a non-retryable DeploymentError carrying that
\* state and never with success; consecutive polls are at least the fixed
\* interval apart; and a deployment that ends in success had a VALID build.
C22_PollingFollowsReportedState ==
    (RestRun /\ pl.uploaded) =>
       /\ pl.in.remoteState \in {"INVALID", "FAILED"} =>
             /\ pl.pc # "done" /\ pl.status # "success"
             /\ pl.pc = "threw" =>
                   /\ pl.error.kind = "DeploymentError" /\ pl.error.retryable = FALSE
                   /\ pl.thrown.code = (IF pl.in.remoteState = "INVALID"
                                        THEN "BUILD_INVALID" ELSE "BUILD_PROCESSING_FAILED")
       /\ \A i \in 1..(Len(pl.pollTimes) - 1) :
             pl.pollTimes[i + 1] >= pl.pollTimes[i] + 10000
       /\ pl.pc = "done" => (pl.status = "success" /\ pl.in.remoteState = "VALID")

\* C23: when build processing has not reached VALID, INVALID or FAILED within the
\* maximum wait, the deployment does not succeed, and the timeout error thrown by
\* deploy() is retryable.
C23_ProcessingTimeoutRetryable ==
    (RestRun /\ pl.uploaded) =>
       /\ pl.thrown.code = "BUILD_PROCESSING_TIMEOUT" =>
             (pl.pc = "threw" /\ pl.error.retryable = TRUE)
       /\ pl.in.remoteState = "PROCESSING" => pl.pc # "done"

UploadApis == {"altool", "buildUploads"}

\* C28: the binary upload of an iOS deployment is started only after a
\* successful authenticated read call and a successful lookup of the app by
\* bundle identifier.
C28_UploadAfterVerificationAndLookup ==
    \A i \in DOMAIN calls :
       calls[i].api \in UploadApis =>
          /\ \E j \in 1..(i - 1) : calls[j].api = "GET /v1/apps" /\ calls[j].ok
          /\ \E k \in 1..(i - 1) : calls[k].api = "GET /v1/apps?filter[bundleId]" /\ calls[k].ok

ActionRun == orch.pc \notin {"harness", "idle"}

\* C24: when the attempt has failed, the outputs of the action are set, with
\* status failed.
C24_OutputsOnFailure ==
    (ActionRun /\ orch.pc = "exited") =>
       /\ orch.outputs # NoResult
       /\ orch.outputs.status = "failed"

\* C25: a run ends either with success outputs and no failure signal, or with
\* setFailed called once with the message of the terminal error followed by
\* process exit; failure is never signalled after success outputs were set, and
\* never twice.
C25_OneTerminalOutcome ==
    ActionRun =>
       /\ orch.setFailed \in {0, 1}
       /\ orch.exited <=> orch.pc = "exited"
       /\ orch.setFailed = 1 <=> orch.pc = "exited"
       /\ orch.pc = "exited" =>
             /\ orch.error # NoError /\ orch.failedMsg = orch.error.msg
             /\ orch.outputs = NoResult
       /\ orch.pc = "done" =>
             /\ orch.outputs # NoResult /\ orch.outputs.status = "success"
             /\ orch.outputs = orch.result
       /\ orch.outputs # NoResult => orch.pc = "done"

C25_Witness ==
    /\ ActionRun /\ orch.pc = "exited" /\ orch.setFailed = 1
    /\ orch.deployerCreated /\ op.state = "rejected" /\ wt.value = op.value
    /\ orch.failedMsg.origin = "updateTrack"

SensitiveNames == {"authorization", "x-api-key", "cookie", "set-cookie"}

AbortStep == ~sig.aborted /\ sig'.aborted

AbortedFirst == wt.events # <<>> /\ wt.events[1].ev = "abort"

\* C27: when the signal given to withTimeout fires while the wrapper is still
\* pending (the deadline callback has not run, the operation has not settled),
\* the wrapper is rejected with a DeploymentError of code ABORTED, which is not
\* a TimeoutError, the deadline timer is cleared and no deadline ever follows;
\* when the signal fires after the wrapper has settled, its state and value
\* stay what they were.
C27_AbortBeforeDeadline ==
    /\ [][(AbortStep /\ wt.state = "pending") =>
             /\ wt'.state = "rejected"
             /\ wt'.value.kind = "DeploymentError" /\ wt'.value.code = "ABORTED"
             /\ ~wt'.timer]_vars
    /\ [][(AbortStep /\ wt.state \in {"fulfilled", "rejected"}) =>
             /\ wt'.state = wt.state /\ wt'.value = wt.value]_vars
    /\ [](AbortedFirst =>
             /\ wt.state = "rejected"
             /\ wt.value.kind = "DeploymentError" /\ wt.value.code = "ABORTED"
             /\ wt.value.kind # "TimeoutError"
             /\ ~wt.timer
             /\ \A i \in DOMAIN wt.events : wt.events[i].ev # "deadline")

C27_Witness ==
    /\ orch.pc = "harness" /\ AbortedFirst
    /\ wt.timeoutMs > 0 /\ now > wt.startedAt /\ now < wt.startedAt + wt.timeoutMs
    /\ Len(wt.events) = 2 /\ wt.events[2].ev = "fulfil" /\ op.state = "fulfilled"
    /\ wt.state = "rejected" /\ wt.value.code = "ABORTED"

\* the message contains the text t somewhere
Contains(text, t) ==
    \E i \in 1..Len(text) : \E j \in i..Len(text) : SubSeq(text, i, j) = t

NetworkTexts == {Chars("network"), Chars("timeout"), Chars("ECONNRESET"), Chars("ETIMEDOUT")}
RateLimitTexts == {Chars("rate limit"), Chars("429"), Chars("too many requests")}
ServerErrorTexts == {Chars("500"), Chars("502"), Chars("503"), Chars("504")}

\* C29: the error that handleDeploymentError returns is a DeploymentError with
\* the message of the error it caught, and its retryable flag is true exactly
\* when that message contains network, timeout, ECONNRESET or ETIMEDOUT, or
\* rate limit, 429 or too many requests, or 500, 502, 503 or 504, whatever the
\* kind and the own retryable flag of the caught error.
C29_RetryableIsMessageHeuristic ==
    cl.pc = "rethrown" =>
       /\ cl.thrown.kind = "DeploymentError"
       /\ cl.thrown.msg = cl.error.msg
       /\ cl.thrown.code = cl.error.kind
       /\ cl.thrown.retryable <=>
             \E t \in NetworkTexts \cup RateLimitTexts \cup ServerErrorTexts :
                Contains(cl.text, t)

C29_Witness ==
    /\ cl.pc = "rethrown" /\ cl.text = Chars("50") \o Chars("4")
    /\ cl.error.kind = "AuthenticationError" /\ ~cl.error.retryable
    /\ cl.thrown.retryable

\* the edit session exists remotely and has been neither committed nor deleted
SessionOpenUncommitted ==
    dep.platform = "android" /\ dep.pc \in {"upload", "update", "commit"}

TimeoutStep ==
    wt.state = "pending" /\ wt'.state = "rejected" /\ wt'.value.kind = "TimeoutError"

DeleteIssued == \E i \in DOMAIN calls : calls[i].api = "edits.delete"

CommitSucceeded == \E i \in CallIndices("edits.commit") : calls[i].ok

\* C31: once edits.commit has succeeded for the session, no edits.delete is in
\* the calls of the attempt, before or after it, and deploy() has fulfilled with
\* a success result for that session; and an attempt issues at most one
\* edits.delete, for the session it opened, and at most one commit.
C31_CommittedNeverDeleted ==
    AndroidRun =>
       /\ CommitSucceeded =>
             /\ CallIndices("edits.delete") = {}
             /\ dep.pc = "done" /\ dep.err = NoError
             /\ op.state = "fulfilled" /\ op.value.status = "success"
             /\ op.value.editId = calls[Len(calls)].editId
             /\ calls[Len(calls)].api = "edits.commit"
       /\ Cardinality(CallIndices("edits.delete")) <= 1
       /\ Cardinality(CallIndices("edits.commit")) <= 1
       /\ \A i \in CallIndices("edits.delete") :
             /\ calls[i].editId = dep.editId /\ dep.editId # "none"
             /\ i = Len(calls)

C31_Witness ==
    /\ AndroidRun /\ CommitSucceeded /\ Len(calls) = 4
    /\ op.state = "fulfilled" /\ orch.pc = "done"
    /\ orch.outputs.editId = calls[4].editId

\* validate() has returned and run() has looked at its result
Validated == iv.pc = "returned" /\ orch.pc \notin {"validate", "idle", "harness"}

\* C32: when validate() returns errors (isValid = false), run() throws a
\* ValidationError that is not retryable and fails with its message, and the
\* orchestrator's artifact check, the creation of a deployer and every step of a
\* deployer are never performed; a ValidationError is reported only when there
\* are errors, so that warnings alone let the deployment start.
C32_InvalidInputsStopRun ==
    Validated =>
       /\ iv.errors # <<>> =>
             /\ orch.pc \in {"pdThrew", "exited"}
             /\ orch.error.kind = "ValidationError" /\ ~orch.error.retryable
             /\ orch.pc = "exited" => orch.failedMsg.origin = "validate"
             /\ orch.vaError = NoError /\ ~orch.deployerCreated
             /\ dep = DepIdle /\ op = OpIdle /\ wt = WtIdle /\ calls = <<>>
             /\ ~keyFile
             /\ orch.result = NoResult /\ orch.outputs = NoResult
       /\ iv.errors = <<>> =>
             /\ orch.error.kind # "ValidationError"
             /\ orch.error.msg.origin # "validate"

C32_Witness ==
    /\ Validated /\ orch.pc = "exited" /\ orch.error.kind = "ValidationError"
    /\ iv.errors = <<"Invalid artifact type">> /\ iv.warnings # <<>>
    /\ inputs.credsOk /\ inputs.remoteOk

\* the sequence contains the entry
Has(seq, x) == \E i \in DOMAIN seq : seq[i] = x

\* the artifact is a readable file of the platform's type whose size is above
\* the validator's ceiling and not above the orchestrator's
InAdvisoryBand ==
    /\ inputs.exists /\ inputs.readable
    /\ toLowerCase(inputs.extension) = (IF inputs.platform = "android" THEN aab ELSE ipa)
    /\ inputs.size > (IF inputs.platform = "android" THEN 150 * MiB ELSE 200 * MiB)
    /\ inputs.size <= (IF inputs.platform = "android" THEN 200 * MiB ELSE 250 * MiB)

\* C33: for an artifact in the band between the two ceilings the validator pushes
\* the size warning and no error about the artifact, the orchestrator's
\* validateArtifact does not throw, and unless another input is in error the
\* run goes on to create the deployer and call deploy(), dry run or not.
C33_AdvisoryBandProceeds ==
    (iv.pc \in {"done", "returned"} /\ orch.pc \notin {"idle", "harness"} /\ InAdvisoryBand) =>
       /\ Has(iv.warnings, "larger than recommended")
       /\ ~Has(iv.warnings, "unusually small")
       /\ ~Has(iv.errors, "Artifact file not found")
       /\ ~Has(iv.errors, "Invalid artifact type")
       /\ orch.vaError = NoError
       /\ (Validated /\ iv.errors = <<>>) =>
             /\ orch.error.msg.origin \notin
                   {"validate", "validateArtifact", "getFileInfo", "deploy", "performDryRun"}
             /\ orch.pc \notin {"performDeployment", "createDeployer"} =>
                   /\ orch.deployerCreated
                   /\ dep.platform = inputs.platform /\ dep.pc # "idle"
                   /\ op.state # "idle"

C33_Witness ==
    /\ Validated /\ InAdvisoryBand /\ iv.errors = <<>>
    /\ inputs.platform = "ios" /\ inputs.size = 200 * MiB + 1 /\ ~inputs.dryRun
    /\ orch.deployerCreated /\ orch.pc = "done"

RECURSIVE ProtocolTrace(_, _)
\* the run the retry protocol prescribes for the attempts made so far: attempt k
\* ends the run when it succeeds, when k is maxAttempts or when its error is not
\* to be retried; else the k-th delay is slept and attempt k + 1 follows
ProtocolTrace(attempts, k) ==
    IF attempts = <<>> THEN <<>>
    ELSE LET a == Head(attempts)
         IN  IF a.ok \/ k = rt.cfg.maxAttempts \/ ~Retryable(a.error)
             THEN <<[a EXCEPT !.n = k]>>
             ELSE <<[a EXCEPT !.n = k], SleepEvent(ExpectedDelay(rt.cfg, k))>>
                  \o ProtocolTrace(Tail(attempts), k + 1)

\* C34: withRetry and executeWithRetry follow one protocol: under either, the
\* calls made and the delays slept are those the protocol prescribes for the
\* policy of the run and the outcomes of the attempts, in that order, and the
\* run returns the value of the successful attempt or throws the error of the
\* attempt that ended it; so with the same policy and the same outcomes the two
\* make the same attempts, sleep the same delays and end alike.
C34_SameRetryProtocol ==
    RetryRun =>
       /\ rt.trace = ProtocolTrace(CallEvents, 1)
       /\ rt.pc \in {"returned", "threw"} =>
             /\ rt.trace # <<>> /\ rt.trace[Len(rt.trace)].ev = "call"
             /\ rt.trace[Len(rt.trace)].ok = (rt.pc = "returned")
             /\ rt.value = rt.trace[Len(rt.trace)].value
             /\ rt.error = rt.trace[Len(rt.trace)].error
       /\ rt.pc \in {"call", "sleep"} =>
             /\ rt.trace # <<>> => rt.trace[Len(rt.trace)].ev = "sleep"
             /\ rt.attempt = Len(CallEvents) + (IF rt.pc = "call" THEN 1 ELSE 0)
             /\ rt.value = "none" /\ rt.error = NoError

C34_Witness ==
    /\ rt.pc = "returned" /\ rt.variant = "executeWithRetry"
    /\ rt.cfg.shouldRetry = "always" /\ rt.cfg.initialDelay = 400 /\ rt.cfg.backoffFactor = 3
    /\ rt.cfg.maxDelay = 1500 /\ rt.cfg.maxAttempts = 3
    /\ rt.trace = <<CallEvent(1, [ok |-> FALSE, value |-> "none", error |-> AxiosError("503")]),
                    SleepEvent(400),
                    CallEvent(2, [ok |-> FALSE, value |-> "none", error |-> AxiosError("503")]),
                    SleepEvent(1200),
                    CallEvent(3, [ok |-> TRUE, value |-> "b1", error |-> NoError])>>

\* deploy() of a real (not dry) Android run has fulfilled
AndroidSuccess == AndroidRun /\ op.state = "fulfilled" /\ ~op.value.dryRun

\* C35: in a successful Android deployment the tracks.update call names the
\* requested track and carries the version code that the bundle upload of the
\* same session returned, the result carries that version code, the package
\* name, the requested track and the edit id of the session; and when the upload
\* returns no version code (or fails) no track update or commit is issued, the
\* deployment never succeeds and it fails only after the session's deletion was
\* issued.
C35_VersionCodeFromUpload ==
    /\ AndroidSuccess =>
          /\ Len(calls) = 4
          /\ calls[2].api = "edits.bundles.upload" /\ calls[2].ok
          /\ calls[2].versionCode \in VersionCodes
          /\ calls[3].api = "edits.tracks.update"
          /\ calls[3].versionCode = calls[2].versionCode
          /\ calls[3].track = inputs.track
          /\ calls[3].editId = calls[2].editId /\ calls[2].editId = calls[1].retId
          /\ op.value.versionCode = calls[2].versionCode
          /\ op.value.editId = calls[1].retId
          /\ op.value.packageName = inputs.packageName
          /\ op.value.track = inputs.track
    /\ AndroidRun =>
          \A u \in CallIndices("edits.bundles.upload") :
             calls[u].versionCode = 0 =>
                /\ ~calls[u].ok
                /\ op.state # "fulfilled"
                /\ CallIndices("edits.tracks.update") = {}
                /\ CallIndices("edits.commit") = {}
                /\ op.state = "rejected" =>
                      /\ calls[Len(calls)].api = "edits.delete"
                      /\ calls[Len(calls)].editId = calls[u].editId
                      /\ op.value.msg.origin = "uploadAAB"

C35_Witness ==
    /\ AndroidSuccess /\ orch.pc = "done"
    /\ calls[2].versionCode = 42 /\ calls[3].versionCode = 42
    /\ orch.outputs.versionCode = 42 /\ orch.outputs.editId = "e1"
    /\ orch.outputs.track = "beta" /\ orch.outputs.packageName = "com.example.app"

----------------------------------------------------------------------------
(* Malformed Android credentials *)

\* the decoded payload is not base64 or not JSON, lacks a required field, or its
\* type is not 'service_account'
Malformed(sa) ==
    \/ ~sa.base64 \/ ~sa.json
    \/ sa.type # "service_account"
    \/ ~sa.project_id \/ ~sa.private_key \/ ~sa.client_email

CredentialsDecoded == AndroidRun /\ dep.serviceAccount # NoServiceAccount

\* C36: when the Android service-account payload is not base64 or JSON, lacks
\* type, project_id, private_key or client_email, or has another type, deploy()
\* rejects with an authentication error raised by initializeGooglePlayAPI, no
\* edit session is opened and no remote call is ever issued.
C36_MalformedCredentialsFailBeforeSession ==
    (CredentialsDecoded /\ Malformed(dep.serviceAccount)) =>
        /\ op.state = "rejected"
        /\ op.value.code = "AuthenticationError"
        /\ op.value.msg.origin = "initializeGooglePlayAPI"
        /\ dep.pc = "threw"
        /\ dep.editId = "none"
        /\ calls = <<>>

C36_Witness ==
    /\ CredentialsDecoded /\ ~inputs.dryRun
    /\ dep.serviceAccount.type = "authorized_user"
    /\ op.state = "rejected"
    /\ orch.exited
    /\ calls = <<>>

----------------------------------------------------------------------------
(* The upload tool and the outer timeout *)

\* the step in which the upload tool runs, from its start to its exit
AltoolStep == dep.pc = "altool" /\ dep'.pc = "iosCleanup"

\* C38: the upload tool's run is a suspension point that lets the outer timeout
\* act: when the deadline passes while the tool runs, the timeout has failed the
\* attempt by the time the tool is done.
C38_TimeoutFiresDuringAltool ==
    [][(AltoolStep /\ ~TimerDue(wt, now) /\ TimerDue(wt, now'))
          => (wt'.state = "rejected" /\ wt'.value.kind = "TimeoutError")]_vars

----------------------------------------------------------------------------
(* The deadline of an attempt *)

\* deploy() was started under withTimeout and performDeployment still awaits it
AwaitingDeploy == orch.pc = "awaitDeploy" /\ wt.state # "idle"

\* performDeployment has returned a result or thrown its DeploymentError
Terminal == orch.pc \in {"pdReturned", "pdThrew", "done", "exited"}

Deadline == wt.startedAt + wt.timeoutMs

\* C37: an attempt that passed artifact validation reaches a terminal outcome,
\* and is never still awaiting deploy() later than timeoutMinutes after deploy()
\* was started.
C37_TerminalByDeadline ==
    /\ [](AwaitingDeploy => now <= Deadline)
    /\ (AwaitingDeploy ~> Terminal)

\* the liveness half alone, which holds
EventuallyTerminal == AwaitingDeploy ~> Terminal

\* the deadline half where no step blocks the event loop: Android and dry runs,
\* and iOS before the upload tool has run
UnblockedByDeadline ==
    (AwaitingDeploy /\ ~(\E i \in 1..Len(calls) : calls[i].api = "altool"))
        => now <= Deadline

----------------------------------------------------------------------------
(* The build-processing poll loop *)

PollLoopEnded == pl.pc \in {"done", "threw"}

MaxPolls == (maxWaitTime \div pollInterval) + 1

LoopErrorCodes ==
    {"BUILD_PROCESSING_FAILED", "BUILD_INVALID", "BUILD_PROCESSING_TIMEOUT"}

\* the loop was entered: the binary is uploaded
PollLoopEntered == RestRun /\ pl.uploaded

\* C39: the poll loop of waitForBuildProcessing terminates; it makes at most
\* maxWaitTime / pollInterval + 1 polls, at least pollInterval apart; it ends by
\* returning on VALID, or by throwing the INVALID, FAILED or processing-timeout
\* error, the last only once maxWaitTime has elapsed; an error of the status
\* check that is not a DeploymentError leads to the wait before the next poll.
C39_PollLoopTerminates ==
    /\ [](PollLoopEntered =>
            /\ Len(pl.pollTimes) <= MaxPolls
            /\ \A i \in 1..(Len(pl.pollTimes) - 1) :
                  pl.pollTimes[i + 1] >= pl.pollTimes[i] + pollInterval
            /\ pl.pc = "done" =>
                  currentState(pl.stateIndex) = "VALID" /\ pl.thrown = NoError
            /\ pl.pc = "threw" =>
                  /\ pl.thrown.code \in LoopErrorCodes
                  /\ pl.thrown.code = "BUILD_PROCESSING_TIMEOUT"
                        => pl.elapsed >= maxWaitTime)
    /\ [][pl'.swallowed > pl.swallowed => (pl'.pc = "wait" /\ pl'.thrown = NoError)]_vars
    /\ (PollLoopEntered ~> PollLoopEnded)

C39_Witness ==
    /\ PollLoopEntered /\ pl.pc = "done"
    /\ pl.swallowed > 0
    /\ Len(pl.pollTimes) > Len(processingStates)

----------------------------------------------------------------------------
(* Log groups *)

AttemptEnded == orch.pc \in {"done", "exited"}

\* C40: the logger's group depth is never negative, and when the attempt has
\* ended, in success or in failure, every group that was opened is closed: the
\* depth is back to its initial value 0.
C40_LogGroupsBalanced ==
    /\ groupLevel >= 0
    /\ AttemptEnded => groupLevel = 0

\* what holds: the depth is never negative, and it is back to 0 at the end of
\* every attempt whose inputs were valid and whose deployer settled
GroupsBalancedAfterValidInputs ==
    /\ groupLevel >= 0 /\ orch.groups >= 0 /\ dep.groups >= 0
    /\ (AttemptEnded /\ orch.error.kind # "ValidationError"
          /\ op.state \in {"idle", "fulfilled", "rejected"}) => groupLevel = 0

====
